---- MODULE Spec2Model ----
(***************************************************************************)
(* Model of the lic scripting language core:                               *)
(*   - the compiler's fragment assembler (compiler/src/fragment.rs),       *)
(*   - the VM execution loop (vm/src/execute.rs),                          *)
(*   - the VM variable table (vm/src/runtime/variable_table.rs),           *)
(*   - the analysis of variable statements                                 *)
(*     (parser/src/tree/variable_statement.rs).                            *)
(*                                                                         *)
(* Four specifications share the module:                                   *)
(*   FragSpec  : any sequence of Fragment method calls on two fragments.   *)
(*   TableSpec : any sequence of VariableTable method calls on one table.  *)
(*   WalkSpec  : analyze on one variable statement and a fresh tracker.    *)
(*   Spec      : the interpreter running a program of the library Programs.*)
(* Positions (jump positions, pc, local ids) are 0-based as in the source; *)
(* TLA+ sequences are 1-based, so position p of a vector v is v[p + 1].    *)
(***************************************************************************)
EXTENDS Integers, Sequences, FiniteSets, TLC

VARIABLES
    frags,             \* slot -> Fragment {code, forward_jump_pos, backward_jump_pos}
    finalized,         \* the vector into_code returned
    debug_assertions,  \* cfg!(debug_assertions): the build flavour
    fstatus,           \* "ok" | "finalized" (into_code returned) | "panic" (an assertion or an index check failed)
    last,              \* the last Fragment or VariableTable method called, its receiver before the call and its arguments
    program,           \* the program handed to execute: its family, its input and its code
    frames,            \* the active invocations of execute, innermost last: code and pc
    stack,             \* runtime.stack, the operand stack, top last
    scopes,            \* runtime.variable_table.scopes, top last
    cells,             \* the Rc<RefCell<Object>> cells allocated so far, by cell number
    vstatus,           \* "idle" | "running" | "returned" | "error" | "panic"
    result,            \* the value the outermost execute returned
    tree,              \* the VariableStatement handed to analyze
    pending,           \* what the walk has still to do, next first: statements to analyze and function scopes to close
    tracker,           \* the Tracker: its stack of definition scopes, current last
    calls              \* the calls analyze has made so far, in order

fragvars == <<frags, finalized, debug_assertions, fstatus, last>>

vmvars == <<program, frames, stack, scopes, cells, vstatus, result>>

walkvars == <<tree, pending, tracker, calls>>

vars == <<frags, finalized, debug_assertions, fstatus, last,
          program, frames, stack, scopes, cells, vstatus, result,
          tree, pending, tracker, calls>>

(***************************************************************************)
(* Bounds                                                                  *)
(***************************************************************************)
\* the two fragments together hold at most MaxCode instructions
MaxCode == 2
\* patch offsets range over -MaxOffset .. MaxOffset
MaxOffset == 1
\* a fragment is placed at base 0 .. MaxBase of the code vector the VM runs
MaxBase == 2

Slots == 1..2
Offsets == (0 - MaxOffset)..MaxOffset
Bases == 0..MaxBase

(***************************************************************************)
(* Code units (vm::code::Code): a tag and an integer operand               *)
(***************************************************************************)
Ins(op, arg) == [op |-> op, arg |-> arg]
Jump(offset) == Ins("Jump", offset)
LoadNil == Ins("LoadNil", 0)
UnloadTop == Ins("UnloadTop", 0)

\* position p (0-based) of a vector
At(v, p) == v[p + 1]

\* the instructions the compiler appends one at a time (never a bare jump:
\* jumps are placed by append_forward_jump / append_backward_jump)
PlainCodes == {LoadNil}
\* the vectors handed to with_code and append_many
PlainVectors == {<<LoadNil, UnloadTop>>}

(***************************************************************************)
(* Fragment (compiler/src/fragment.rs)                                     *)
(***************************************************************************)
Fragment(code, forward_jump_pos, backward_jump_pos) ==
    [code |-> code,
     forward_jump_pos |-> forward_jump_pos,
     backward_jump_pos |-> backward_jump_pos]

new == Fragment(<<>>, <<>>, <<>>)

with_code(code) == Fragment(code, <<>>, <<>>)

len(self) == Len(self.code)

append(self, code) == [self EXCEPT !.code = Append(@, code)]

append_many(self, code) == [self EXCEPT !.code = @ \o code]

append_forward_jump(self) ==
    LET pushed == Append(self.code, Jump(0))
    IN  [self EXCEPT !.code = pushed,
                     !.forward_jump_pos = Append(@, Len(pushed) - 1)]

append_backward_jump(self) ==
    LET pushed == Append(self.code, Jump(0))
    IN  [self EXCEPT !.code = pushed,
                     !.backward_jump_pos = Append(@, Len(pushed) - 1)]

\* pos + len for every pos of a position list
Relocate(positions, by) == [i \in DOMAIN positions |-> positions[i] + by]

\* mutant: the two lists of the argument really change places
append_fragment_swapped(self, fragment) ==
    Fragment(self.code \o fragment.code,
             self.forward_jump_pos \o Relocate(fragment.backward_jump_pos, Len(self.code)),
             self.backward_jump_pos \o Relocate(fragment.forward_jump_pos, Len(self.code)))

\* mutant: the argument's positions are not relocated
append_fragment_unrelocated(self, fragment) ==
    Fragment(self.code \o fragment.code,
             self.forward_jump_pos \o fragment.forward_jump_pos,
             self.backward_jump_pos \o fragment.backward_jump_pos)

\* The destructuring pattern binds the argument's backward_jump_pos to a local
\* named forward_jump_pos and its forward_jump_pos to a local named
\* backward_jump_pos; self.backward_jump_pos is then extended with the local
\* forward_jump_pos and self.forward_jump_pos with the local backward_jump_pos.
append_fragment(self, fragment) ==
    LET length == Len(self.code)
        local_forward_jump_pos == fragment.backward_jump_pos
        local_backward_jump_pos == fragment.forward_jump_pos
    IN  Fragment(self.code \o fragment.code,
                 self.forward_jump_pos \o Relocate(local_backward_jump_pos, length),
                 self.backward_jump_pos \o Relocate(local_forward_jump_pos, length))

\* the for loop of patch_forward_jump over the pending positions
RECURSIVE PatchForwardLoop(_, _, _, _)
PatchForwardLoop(code, positions, length, offset) ==
    IF positions = <<>> THEN code
    ELSE LET pos == Head(positions)
         IN  PatchForwardLoop([code EXCEPT ![pos + 1] = Jump((length - pos - 1) + offset)],
                              Tail(positions), length, offset)

\* the for loop of patch_backward_jump over the pending positions
RECURSIVE PatchBackwardLoop(_, _, _)
PatchBackwardLoop(code, positions, offset) ==
    IF positions = <<>> THEN code
    ELSE LET pos == Head(positions)
         IN  PatchBackwardLoop([code EXCEPT ![pos + 1] = Jump((0 - pos) + offset)],
                               Tail(positions), offset)

\* mutant: the displacement is off by one (len - pos instead of len - pos - 1)
patch_forward_jump_off_by_one(self, offset) ==
    [self EXCEPT !.code = [i \in DOMAIN self.code |->
                              IF \E j \in DOMAIN self.forward_jump_pos :
                                     self.forward_jump_pos[j] = i - 1
                              THEN Jump((Len(self.code) - (i - 1)) + offset)
                              ELSE self.code[i]],
                 !.forward_jump_pos = <<>>]

\* mutant: the pending list is not cleared
patch_forward_jump_keeps_list(self, offset) ==
    [self EXCEPT !.code = PatchForwardLoop(self.code, self.forward_jump_pos,
                                           Len(self.code), offset)]

patch_forward_jump(self, offset) ==
    [self EXCEPT !.code = PatchForwardLoop(self.code, self.forward_jump_pos,
                                           Len(self.code), offset),
                 !.forward_jump_pos = <<>>]

\* mutant: the position of the jump is left out of the displacement
patch_backward_jump_ignores_pos(self, offset) ==
    [self EXCEPT !.code = [i \in DOMAIN self.code |->
                              IF \E j \in DOMAIN self.backward_jump_pos :
                                     self.backward_jump_pos[j] = i - 1
                              THEN Jump(offset)
                              ELSE self.code[i]],
                 !.backward_jump_pos = <<>>]

\* mutant: the position is added instead of subtracted
patch_backward_jump_sign(self, offset) ==
    [self EXCEPT !.code = [i \in DOMAIN self.code |->
                              IF \E j \in DOMAIN self.backward_jump_pos :
                                     self.backward_jump_pos[j] = i - 1
                              THEN Jump((i - 1) + offset)
                              ELSE self.code[i]],
                 !.backward_jump_pos = <<>>]

patch_backward_jump(self, offset) ==
    [self EXCEPT !.code = PatchBackwardLoop(self.code, self.backward_jump_pos, offset),
                 !.backward_jump_pos = <<>>]

\* self.code[*pos] panics on an index past the end; debug_assert! panics in a
\* debug build when the instruction at a pending position is not Jump(0)
PatchPanics(self, positions, debug) ==
    \E j \in DOMAIN positions :
        \/ positions[j] >= Len(self.code)
        \/ debug /\ At(self.code, positions[j]) # Jump(0)

\* the assert! of into_code, compiled in under cfg!(debug_assertions)
IntoCodePanics(self, debug) ==
    debug /\ \E i \in DOMAIN self.code : self.code[i] = Jump(0)

into_code(self) == self.code

(***************************************************************************)
(* The Jump arm of the interpreter (vm/src/execute.rs)                     *)
(***************************************************************************)
\* pc -= offset.unsigned_abs() on a usize: below 0 the subtraction overflows
\* (a panic in a debug build, a wrap to a value past any code vector otherwise)
JumpUnderflows(pc, offset) == offset <= 0 /\ (0 - offset) > pc

\* mutant: the offset counted from the instruction after the jump
JumpTargetAfter(pc, offset) == pc + 1 + offset

\* mutant: a jump of offset 0 falls through to the next instruction
JumpTarget_zero_falls_through(pc, offset) ==
    IF offset > 0 THEN pc + offset
    ELSE IF offset = 0 THEN pc + 1
    ELSE pc - (0 - offset)

\* the pc the Jump arm leaves (it ends in `continue`: no pc += 1 follows)
JumpTarget(pc, offset) ==
    IF offset > 0 THEN pc + offset ELSE pc - (0 - offset)

(***************************************************************************)
(* FragSpec: the compiler calling Fragment methods in any order            *)
(***************************************************************************)
TotalLen == Len(frags[1].code) + Len(frags[2].code)

Called(op, f, arg, offset) ==
    [op |-> op, slot |-> f, pre |-> frags[f], arg |-> arg, offset |-> offset]

\* a method that rebinds slot f to fragment `to`
Rebind(op, f, to) ==
    /\ fstatus = "ok"
    /\ frags' = [frags EXCEPT ![f] = to]
    /\ last' = Called(op, f, new, 0)
    /\ UNCHANGED <<finalized, debug_assertions, fstatus>>
    /\ UNCHANGED <<vmvars, walkvars>>

New(f) == Rebind("new", f, new)

WithCode(f, code) ==
    /\ TotalLen - Len(frags[f].code) + Len(code) <= MaxCode
    /\ Rebind("with_code", f, with_code(code))

AppendCode(f, code) ==
    /\ TotalLen < MaxCode
    /\ Rebind("append", f, append(frags[f], code))

AppendMany(f, code) ==
    /\ TotalLen + Len(code) <= MaxCode
    /\ Rebind("append_many", f, append_many(frags[f], code))

AppendForwardJump(f) ==
    /\ TotalLen < MaxCode
    /\ Rebind("append_forward_jump", f, append_forward_jump(frags[f]))

AppendBackwardJump(f) ==
    /\ TotalLen < MaxCode
    /\ Rebind("append_backward_jump", f, append_backward_jump(frags[f]))

\* append_fragment takes its argument by value: the argument's slot is left
\* holding a fresh fragment
AppendFragment(f, g) ==
    /\ fstatus = "ok"
    /\ f # g
    /\ frags' = [frags EXCEPT ![f] = append_fragment(frags[f], frags[g]), ![g] = new]
    /\ last' = Called("append_fragment", f, frags[g], 0)
    /\ UNCHANGED <<finalized, debug_assertions, fstatus>>
    /\ UNCHANGED <<vmvars, walkvars>>

PatchForwardJump(f, offset) ==
    /\ fstatus = "ok"
    /\ last' = Called("patch_forward_jump", f, new, offset)
    /\ IF PatchPanics(frags[f], frags[f].forward_jump_pos, debug_assertions)
       THEN fstatus' = "panic" /\ UNCHANGED frags
       ELSE frags' = [frags EXCEPT ![f] = patch_forward_jump(frags[f], offset)]
            /\ UNCHANGED fstatus
    /\ UNCHANGED <<finalized, debug_assertions>>
    /\ UNCHANGED <<vmvars, walkvars>>

PatchBackwardJump(f, offset) ==
    /\ fstatus = "ok"
    /\ last' = Called("patch_backward_jump", f, new, offset)
    /\ IF PatchPanics(frags[f], frags[f].backward_jump_pos, debug_assertions)
       THEN fstatus' = "panic" /\ UNCHANGED frags
       ELSE frags' = [frags EXCEPT ![f] = patch_backward_jump(frags[f], offset)]
            /\ UNCHANGED fstatus
    /\ UNCHANGED <<finalized, debug_assertions>>
    /\ UNCHANGED <<vmvars, walkvars>>

\* into_code consumes the fragment and ends the assembly; in a debug build it
\* panics on a Jump(0)
IntoCode(f) ==
    /\ fstatus = "ok"
    /\ last' = Called("into_code", f, new, 0)
    /\ IF IntoCodePanics(frags[f], debug_assertions)
       THEN fstatus' = "panic" /\ UNCHANGED <<frags, finalized>>
       ELSE /\ finalized' = into_code(frags[f])
            /\ frags' = [frags EXCEPT ![f] = new]
            /\ fstatus' = "finalized"
    /\ UNCHANGED debug_assertions
    /\ UNCHANGED <<vmvars, walkvars>>

Idle == [family |-> "none", input |-> <<>>, code |-> <<>>]

\* no statement is being analyzed
NoWalk ==
    /\ tree = <<>>
    /\ pending = <<>>
    /\ tracker = <<>>
    /\ calls = <<>>

FragInit ==
    /\ frags = [f \in Slots |-> new]
    /\ finalized = <<>>
    /\ debug_assertions \in BOOLEAN
    /\ fstatus = "ok"
    /\ last = [op |-> "new", slot |-> 1, pre |-> new, arg |-> new, offset |-> 0]
    /\ program = Idle
    /\ frames = <<>>
    /\ stack = <<>>
    /\ scopes = <<>>
    /\ cells = <<>>
    /\ vstatus = "idle"
    /\ result = [t |-> "Nil"]
    /\ NoWalk

FragNext ==
    \/ \E f \in Slots : New(f)
    \/ \E f \in Slots, code \in PlainVectors : WithCode(f, code)
    \/ \E f \in Slots, code \in PlainCodes : AppendCode(f, code)
    \/ \E f \in Slots, code \in PlainVectors : AppendMany(f, code)
    \/ \E f \in Slots : AppendForwardJump(f)
    \/ \E f \in Slots : AppendBackwardJump(f)
    \/ \E f, g \in Slots : AppendFragment(f, g)
    \/ \E f \in Slots, offset \in Offsets : PatchForwardJump(f, offset)
    \/ \E f \in Slots, offset \in Offsets : PatchBackwardJump(f, offset)
    \/ \E f \in Slots : IntoCode(f)

FragSpec == FragInit /\ [][FragNext]_vars

(***************************************************************************)
(* Objects (vm: Object) and the raw forms of an operand-stack entry        *)
(***************************************************************************)
IntObject(i) == [t |-> "Int", i |-> i]
BoolObject(b) == [t |-> "Bool", b |-> b]
NilObject == [t |-> "Nil"]
\* FunctionObject { id, env, args, code }: env is a list of cell numbers
FunctionObject(id, env, args, code) ==
    [t |-> "Function", id |-> id, env |-> env, args |-> args, code |-> code]

\* Object::Float(f64) is held as the fraction n/d in lowest terms with d > 0;
\* d = 0 holds the values outside the reals: 1/0 is inf, -1/0 is -inf and 0/0
\* is NaN. Rounding is not modelled (a quotient is the exact fraction), nor is
\* the sign of zero.
Sign(x) == IF x > 0 THEN 1 ELSE IF x < 0 THEN 0 - 1 ELSE 0
Abs(x) == IF x < 0 THEN 0 - x ELSE x

RECURSIVE Gcd(_, _)
Gcd(a, b) == IF b = 0 THEN a ELSE Gcd(b, a % b)

FloatObject(n, d) ==
    IF d = 0 THEN [t |-> "Float", n |-> Sign(n), d |-> 0]
    ELSE LET g == Gcd(Abs(n), Abs(d))
         IN  [t |-> "Float", n |-> Sign(d) * (n \div g), d |-> Abs(d) \div g]

NaN == FloatObject(0, 0)
StringObject(s) == [t |-> "String", s |-> s]
\* Object::RustFunction(fn): an opaque handle
RustFunctionObject(f) == [t |-> "RustFunction", f |-> f]
\* Object::Array and Object::Table share their content: ref is the number of
\* the cell (Rc<RefCell<..>>) that holds the vector or the map
ArrayObject(ref) == [t |-> "Array", ref |-> ref]
TableObject(ref) == [t |-> "Table", ref |-> ref]
VecData(items) == [t |-> "Vec", items |-> items]
MapData(map) == [t |-> "HashMap", map |-> map]
\* a string is the sequence of its characters; the key of a table is a string
\* the raw forms of StackValue
RawArray(items) == [t |-> "RawArray", items |-> items]
Named(name, object) == [t |-> "Named", name |-> name, object |-> object]

\* `x as f64`
as_f64(x) == FloatObject(x, 1)

\* an Int or Float operand as a Float: the arms of a binary match on
\* (Int, Float), (Float, Int) and (Float, Float) differ only in the casts
Promote(object) == IF object.t = "Int" THEN as_f64(object.i) ELSE object

IsNumber(object) == object.t \in {"Int", "Float"}
BothNumber(lhs, rhs) == IsNumber(lhs) /\ IsNumber(rhs)

\* f64 +, unary -, -, *, / and % (the remainder of the truncated division)
FloatAdd(x, y) ==
    IF x.d = 0 /\ y.d = 0 /\ x.n = y.n THEN x
    ELSE FloatObject(x.n * y.d + y.n * x.d, x.d * y.d)
FloatNeg(x) == FloatObject(0 - x.n, x.d)
FloatSub(x, y) == FloatAdd(x, FloatNeg(y))
FloatMul(x, y) == FloatObject(x.n * y.n, x.d * y.d)
FloatDiv(x, y) ==
    IF y.n < 0 THEN FloatObject((0 - x.n) * y.d, x.d * (0 - y.n))
    ELSE FloatObject(x.n * y.d, x.d * y.n)

\* i64 / and %: the quotient truncated toward zero, the remainder with the
\* sign of the dividend
\* mutant: the quotient rounded toward minus infinity
FloorDiv(a, b) == a \div b

TruncDiv(a, b) == Sign(a) * Sign(b) * (Abs(a) \div Abs(b))
TruncRem(a, b) == Sign(a) * (Abs(a) % Abs(b))

FloatRem(x, y) ==
    IF x.d = 0 \/ y.n = 0 THEN NaN
    ELSE IF y.d = 0 THEN x
    ELSE FloatSub(x, FloatMul(as_f64(TruncDiv(x.n * y.d, x.d * y.n)), y))

\* the comparison of two f64: -1, 0, 1, or 2 when one of them is NaN
FloatCmp(x, y) ==
    IF x = NaN \/ y = NaN THEN 2
    ELSE IF x.d = 0 /\ y.d = 0 THEN Sign(x.n - y.n)
    ELSE Sign(x.n * y.d - y.n * x.d)

\* x.to_string() of an i64
Digits == <<"0", "1", "2", "3", "4", "5", "6", "7", "8", "9">>

RECURSIVE NatToString(_)
NatToString(x) ==
    IF x < 10 THEN <<Digits[x + 1]>>
    ELSE Append(NatToString(x \div 10), Digits[(x % 10) + 1])

IntToString(x) == IF x < 0 THEN <<"-">> \o NatToString(0 - x) ELSE NatToString(x)

\* the decimals of r/d, 0 <= r < d, for a fraction that has finitely many
RECURSIVE FracToString(_, _)
FracToString(r, d) ==
    IF r = 0 THEN <<>>
    ELSE <<Digits[((r * 10) \div d) + 1]>> \o FracToString((r * 10) % d, d)

\* d without its factors p
RECURSIVE Without(_, _)
Without(d, p) == IF d % p = 0 THEN Without(d \div p, p) ELSE d

\* the fraction has finitely many decimals
HasFiniteText(x) == x.d = 0 \/ Without(Without(x.d, 2), 5) = 1

\* x.to_string() of an f64: no decimal point for a whole number
FloatToString(x) ==
    IF x = NaN THEN <<"N", "a", "N">>
    ELSE IF x.d = 0
    THEN (IF x.n > 0 THEN <<>> ELSE <<"-">>) \o <<"i", "n", "f">>
    ELSE (IF x.n < 0 THEN <<"-">> ELSE <<>>)
         \o NatToString(Abs(x.n) \div x.d)
         \o (IF Abs(x.n) % x.d = 0 THEN <<>>
             ELSE <<".">> \o FracToString(Abs(x.n) % x.d, x.d))

\* powi, and powf with an exponent that is a whole number: x multiplied k
\* times, inverted for a negative k
RECURSIVE FloatPowi(_, _)
FloatPowi(x, k) ==
    IF k = 0 THEN as_f64(1)
    ELSE IF k < 0 THEN FloatDiv(as_f64(1), FloatPowi(x, 0 - k))
    ELSE FloatMul(x, FloatPowi(x, k - 1))

(***************************************************************************)
(* Variable table (vm/src/runtime/variable_table.rs). A scope is its       *)
(* entities vector; a shared cell Rc<RefCell<Object>> is a number indexing *)
(* the vector cells, and Rc::new appends a cell to it.                     *)
(***************************************************************************)
EntityValue(object) == [kind |-> "Value", object |-> object]
EntityShared(cell) == [kind |-> "Shared", cell |-> cell]

VariableTable_new == << <<>> >>

\* entities.get(id.0) is Some
InScope(entities, id) == id >= 0 /\ id < Len(entities)

Scope_push(entities, entity) == Append(entities, entity)

Scope_drop(entities, count) == SubSeq(entities, 1, Len(entities) - count)

Scope_get(entities, heap, id) ==
    LET entity == At(entities, id)
    IN  IF entity.kind = "Value" THEN entity.object ELSE heap[entity.cell]

\* mutant: the new cell is returned but the entity stays an owned value
Scope_get_ref_no_upgrade(entities, heap, id) ==
    LET entity == At(entities, id)
    IN  IF entity.kind = "Value"
        THEN [entities |-> entities,
              heap |-> Append(heap, entity.object),
              cell |-> Len(heap) + 1]
        ELSE [entities |-> entities, heap |-> heap, cell |-> entity.cell]

\* the entities and the cells after the call, and the cell returned
Scope_get_ref(entities, heap, id) ==
    LET entity == At(entities, id)
    IN  IF entity.kind = "Value"
        THEN [entities |-> [entities EXCEPT ![id + 1] = EntityShared(Len(heap) + 1)],
              heap |-> Append(heap, entity.object),
              cell |-> Len(heap) + 1]
        ELSE [entities |-> entities, heap |-> heap, cell |-> entity.cell]

\* mutant: the edit of a shared entity replaces it by an owned value
Scope_edit_unshares(entities, heap, id, object) ==
    [entities |-> [entities EXCEPT ![id + 1] = EntityValue(object)], heap |-> heap]

\* the entities and the cells after the call
Scope_edit(entities, heap, id, object) ==
    LET entity == At(entities, id)
    IN  IF entity.kind = "Value"
        THEN [entities |-> [entities EXCEPT ![id + 1] = EntityValue(object)],
              heap |-> heap]
        ELSE [entities |-> entities,
              heap |-> [heap EXCEPT ![entity.cell] = object]]

\* mutant: an id the bottom scope holds is edited there
edit_bottom(table, heap, id, object) ==
    IF Len(table) > 1 /\ id < Len(table[1])
    THEN LET r == Scope_edit(table[1], heap, id, object)
         IN  [table |-> [table EXCEPT ![1] = r.entities], heap |-> r.heap]
    ELSE LET r == Scope_edit(table[Len(table)], heap, id, object)
         IN  [table |-> [table EXCEPT ![Len(table)] = r.entities], heap |-> r.heap]

\* self.scopes.last(): the methods of VariableTable act on it
Top(table) == table[Len(table)]
SetTop(table, entities) == [table EXCEPT ![Len(table)] = entities]

push_scope(table) == Append(table, <<>>)
pop_scope(table) == SubSeq(table, 1, Len(table) - 1)
push(table, object) == SetTop(table, Scope_push(Top(table), EntityValue(object)))
push_ref(table, cell) == SetTop(table, Scope_push(Top(table), EntityShared(cell)))
drop(table, count) == SetTop(table, Scope_drop(Top(table), count))
get(table, heap, id) == Scope_get(Top(table), heap, id)
edit(table, heap, id, object) ==
    LET r == Scope_edit(Top(table), heap, id, object)
    IN  [table |-> SetTop(table, r.entities), heap |-> r.heap]
get_ref(table, heap, id) ==
    LET r == Scope_get_ref(Top(table), heap, id)
    IN  [table |-> SetTop(table, r.entities), heap |-> r.heap, cell |-> r.cell]

(***************************************************************************)
(* TableSpec: any sequence of VariableTable method calls on one table      *)
(* created by new(). last records the call: its name, its arguments, the   *)
(* table and the cells before it, what it returned, and the cells get_ref  *)
(* has handed out for the entities still in the table.                     *)
(***************************************************************************)
\* a table holds at most MaxTable scopes and entities together
MaxTable == 4
\* at most MaxCells shared cells are allocated
MaxCells == 1

\* the objects stored by the calls, and the ids passed (one past the bound too)
TableObjects == {IntObject(0), IntObject(1)}
TableIds == 0..MaxTable

RECURSIVE Entities(_)
Entities(table) == IF table = <<>> THEN 0 ELSE Len(Head(table)) + Entities(Tail(table))

TableSize(table) == Len(table) + Entities(table)

\* the record of a call: op, the id, object or count passed, the table and the
\* cells before the call, the object or the cell returned, the cells get_ref
\* had handed out before the call and has handed out after it
TableCalled(op, id, object, value, cell, granted) ==
    [op |-> op, id |-> id, object |-> object, pre |-> scopes, preheap |-> cells,
     value |-> value, cell |-> cell, pregranted |-> last.granted,
     granted |-> granted]

Granted(depth, id, cell) == [depth |-> depth, id |-> id, cell |-> cell]

\* .expect("[BUG] This should be called in at least one scope.") and the
\* panics of Scope::drop, get, get_ref and edit
TablePanics(op, arg) ==
    /\ last' = TableCalled(op, arg, NilObject, NilObject, 0, last.granted)
    /\ vstatus' = "panic"
    /\ UNCHANGED <<scopes, cells>>

TableReturns(table, heap, called) ==
    /\ scopes' = table
    /\ cells' = heap
    /\ last' = called
    /\ UNCHANGED vstatus

TableFrame ==
    /\ vstatus = "idle"
    /\ UNCHANGED <<program, frames, stack, result>>
    /\ UNCHANGED <<frags, finalized, debug_assertions, fstatus>>
    /\ UNCHANGED walkvars

TablePushScope ==
    /\ TableFrame
    /\ TableSize(scopes) < MaxTable
    /\ TableReturns(push_scope(scopes), cells,
                    TableCalled("push_scope", 0, NilObject, NilObject, 0, last.granted))

TablePopScope ==
    /\ TableFrame
    /\ IF scopes = <<>> THEN TablePanics("pop_scope", 0)
       ELSE TableReturns(pop_scope(scopes), cells,
                TableCalled("pop_scope", 0, NilObject, NilObject, 0,
                            {g \in last.granted : g.depth # Len(scopes)}))

TablePush(object) ==
    /\ TableFrame
    /\ TableSize(scopes) < MaxTable
    /\ IF scopes = <<>> THEN TablePanics("push", 0)
       ELSE TableReturns(push(scopes, object), cells,
                TableCalled("push", 0, object, NilObject, 0, last.granted))

TablePushRef(cell) ==
    /\ TableFrame
    /\ TableSize(scopes) < MaxTable
    /\ IF scopes = <<>> THEN TablePanics("push_ref", 0)
       ELSE TableReturns(push_ref(scopes, cell), cells,
                TableCalled("push_ref", 0, NilObject, NilObject, cell, last.granted))

TableDrop(count) ==
    /\ TableFrame
    /\ IF scopes = <<>> \/ count > Len(Top(scopes)) THEN TablePanics("drop", count)
       ELSE TableReturns(drop(scopes, count), cells,
                TableCalled("drop", count, NilObject, NilObject, 0,
                            {g \in last.granted :
                                g.depth # Len(scopes) \/ g.id < Len(Top(scopes)) - count}))

TableEdit(id, object) ==
    /\ TableFrame
    /\ IF scopes = <<>> \/ ~InScope(Top(scopes), id) THEN TablePanics("edit", id)
       ELSE LET r == edit(scopes, cells, id, object)
            IN  TableReturns(r.table, r.heap,
                    TableCalled("edit", id, object, NilObject, 0, last.granted))

TableGet(id) ==
    /\ TableFrame
    /\ IF scopes = <<>> \/ ~InScope(Top(scopes), id) THEN TablePanics("get", id)
       ELSE TableReturns(scopes, cells,
                TableCalled("get", id, NilObject, get(scopes, cells, id), 0,
                            last.granted))

TableGetRef(id) ==
    /\ TableFrame
    /\ IF scopes = <<>> \/ ~InScope(Top(scopes), id) THEN TablePanics("get_ref", id)
       ELSE LET r == get_ref(scopes, cells, id)
            IN  /\ Len(r.heap) <= MaxCells
                /\ TableReturns(r.table, r.heap,
                       TableCalled("get_ref", id, NilObject, NilObject, r.cell,
                           last.granted \cup {Granted(Len(scopes), id, r.cell)}))

TableInit ==
    /\ frags = [f \in Slots |-> new]
    /\ finalized = <<>>
    /\ debug_assertions = FALSE
    /\ fstatus = "ok"
    /\ last = [op |-> "new", id |-> 0, object |-> NilObject,
               pre |-> VariableTable_new, preheap |-> <<>>,
               value |-> NilObject, cell |-> 0, pregranted |-> {}, granted |-> {}]
    /\ program = Idle
    /\ frames = <<>>
    /\ stack = <<>>
    /\ scopes = VariableTable_new
    /\ cells = <<>>
    /\ vstatus = "idle"
    /\ result = NilObject
    /\ NoWalk

TableNext ==
    \/ TablePushScope
    \/ TablePopScope
    \/ \E object \in TableObjects : TablePush(object)
    \/ \E cell \in DOMAIN cells : TablePushRef(cell)
    \/ \E count \in TableIds : TableDrop(count)
    \/ \E id \in TableIds, object \in TableObjects : TableEdit(id, object)
    \/ \E id \in TableIds : TableGet(id)
    \/ \E id \in TableIds : TableGetRef(id)

TableSpec == TableInit /\ [][TableNext]_vars

(***************************************************************************)
(* The BeginFuncCreation arm of execute: the scans over the code vector    *)
(***************************************************************************)
\* `while let AddCapture(name) = code[pc]`: the pc the loop ends at;
\* Len(code) when the loop indexes past the end of the vector (a panic)
RECURSIVE CaptureEnd(_, _)
CaptureEnd(code, pc) ==
    IF pc >= Len(code) THEN Len(code)
    ELSE IF At(code, pc).op = "AddCapture" THEN CaptureEnd(code, pc + 1) ELSE pc

\* `while let AddArgument(name) = code[pc]`
RECURSIVE ArgumentEnd(_, _)
ArgumentEnd(code, pc) ==
    IF pc >= Len(code) THEN Len(code)
    ELSE IF At(code, pc).op = "AddArgument" THEN ArgumentEnd(code, pc + 1) ELSE pc

\* mutant: the body ends at the first EndFuncCreation, nested or not
RECURSIVE BodyEnd_first_end(_, _, _)
BodyEnd_first_end(code, pc, inner_count) ==
    IF pc >= Len(code) THEN Len(code)
    ELSE IF At(code, pc).op = "EndFuncCreation" THEN pc
    ELSE BodyEnd_first_end(code, pc + 1, inner_count)

\* the loop that collects func_code: the pc of the EndFuncCreation that brings
\* inner_count below 0; Len(code) when the loop indexes past the end
RECURSIVE BodyEnd(_, _, _)
BodyEnd(code, pc, inner_count) ==
    IF pc >= Len(code) THEN Len(code)
    ELSE LET count == IF At(code, pc).op = "BeginFuncCreation" THEN inner_count + 1
                      ELSE IF At(code, pc).op = "EndFuncCreation" THEN inner_count - 1
                      ELSE inner_count
         IN  IF count < 0 THEN pc ELSE BodyEnd(code, pc + 1, count)

\* the operands of the instructions at positions from .. to - 1
Operands(code, from, to) == [i \in 1..(to - from) |-> At(code, from + i - 1).arg]

\* get_ref(name) for each AddCapture in order: the table, the cells and the env
RECURSIVE CollectEnv(_, _, _, _)
CollectEnv(table, heap, ids, env) ==
    IF ids = <<>> THEN [table |-> table, heap |-> heap, env |-> env]
    ELSE LET r == get_ref(table, heap, Head(ids))
         IN  CollectEnv(r.table, r.heap, Tail(ids), Append(env, r.cell))

\* some get_ref of the capture loop panics: the id is not in the top scope as
\* the loop reaches it (get_ref never changes the length of the scope)
CapturePanics(table, ids) ==
    \E i \in DOMAIN ids : ~InScope(Top(table), ids[i])

(***************************************************************************)
(* execute (vm/src/execute.rs): one action per arm of the match, executed  *)
(* by the innermost active invocation of execute. A nested invocation      *)
(* (execute_func calling execute) is a frame pushed on frames; its Return  *)
(* or Exit completes execute_func and the Call arm of the caller.          *)
(***************************************************************************)
LoadInt(x) == Ins("LoadInt", x)
\* the operand is 1 for true and 0 for false
LoadBool(x) == Ins("LoadBool", IF x THEN 1 ELSE 0)
\* the literal of LoadFloat is the fraction n/d, that of LoadString its characters
LoadFloat(n, d) == [op |-> "LoadFloat", n |-> n, d |-> d]
LoadString(x) == [op |-> "LoadString", s |-> x]
LoadRustFunction(x) == Ins("LoadRustFunction", x)
LoadLocal(id) == Ins("LoadLocal", id)
SetLocal(id) == Ins("SetLocal", id)
MakeLocal == Ins("MakeLocal", 0)
MakeArray(count) == Ins("MakeArray", count)
MakeNamed == Ins("MakeNamed", 0)
MakeTable(count) == Ins("MakeTable", count)
DropLocal(count) == Ins("DropLocal", count)
JumpIfTrue(offset) == Ins("JumpIfTrue", offset)
JumpIfFalse(offset) == Ins("JumpIfFalse", offset)
Call(args_len) == Ins("Call", args_len)
SetItem == Ins("SetItem", 0)
GetItem == Ins("GetItem", 0)
Add == Ins("Add", 0)
Sub == Ins("Sub", 0)
Mul == Ins("Mul", 0)
Div == Ins("Div", 0)
Mod == Ins("Mod", 0)
Pow == Ins("Pow", 0)
Unm == Ins("Unm", 0)
Eq == Ins("Eq", 0)
NotEq == Ins("NotEq", 0)
Less == Ins("Less", 0)
LessEq == Ins("LessEq", 0)
Greater == Ins("Greater", 0)
GreaterEq == Ins("GreaterEq", 0)
Concat == Ins("Concat", 0)
BeginFuncCreation == Ins("BeginFuncCreation", 0)
AddCapture(id) == Ins("AddCapture", id)
AddArgument(name) == Ins("AddArgument", name)
EndFuncCreation == Ins("EndFuncCreation", 0)
Nop == Ins("Nop", 0)
Return == Ins("Return", 0)
Exit == Ins("Exit", 0)

\* the innermost invocation of execute, its pc and the instruction code[pc]
Cur == frames[Len(frames)]
Pc == Cur.pc
PcValid == Pc >= 0 /\ Pc < Len(Cur.code)
Instr == At(Cur.code, Pc)
Dispatch(op) == vstatus = "running" /\ PcValid /\ Instr.op = op

\* runtime.stack: the top and the stack below the top n entries
Peek(stk, n) == stk[Len(stk) - n]
Popped(stk, n) == SubSeq(stk, 1, Len(stk) - n)

Reverse(q) == [i \in 1..Len(q) |-> q[Len(q) + 1 - i]]

\* StackValue::ensure_object: the entry as an Object. A RawArray becomes an
\* Array on a new shared vector; a Named pair is not an object (a panic,
\* EnsurePanics). The object and the cells after the call.
ensure_object(value, heap) ==
    IF value.t = "RawArray"
    THEN [object |-> ArrayObject(Len(heap) + 1),
          heap |-> Append(heap, VecData(value.items))]
    ELSE [object |-> value, heap |-> heap]

EnsurePanics(value) == value.t = "Named"

\* n times `runtime.stack.pop().ensure_object()`: the objects in the order
\* they are popped (top first) and the cells after the calls
RECURSIVE PopObjects(_, _, _)
PopObjects(stk, n, heap) ==
    IF n = 0 THEN [objects |-> <<>>, heap |-> heap]
    ELSE LET e == ensure_object(Peek(stk, 0), heap)
             r == PopObjects(Popped(stk, 1), n - 1, e.heap)
         IN  [objects |-> <<e.object>> \o r.objects, heap |-> r.heap]

\* one of the n pops finds the stack empty or one of the n entries is not an
\* object
PopPanics(stk, n) ==
    Len(stk) < n \/ \E k \in 0..(n - 1) : EnsurePanics(Peek(stk, k))

Goto(pc) == frames' = [frames EXCEPT ![Len(frames)].pc = pc]

\* mutant: the loop runs `pc += 2`
ContinueSkips(stk, table, heap) ==
    /\ stack' = stk
    /\ scopes' = table
    /\ cells' = heap
    /\ Goto(Pc + 2)
    /\ UNCHANGED <<program, vstatus, result>>
    /\ UNCHANGED <<fragvars, walkvars>>

\* the arm completes and the loop runs `pc += 1`
Continue(stk, table, heap) ==
    /\ stack' = stk
    /\ scopes' = table
    /\ cells' = heap
    /\ Goto(Pc + 1)
    /\ UNCHANGED <<program, vstatus, result>>
    /\ UNCHANGED <<fragvars, walkvars>>

\* a taken jump: the arm sets pc and ends in `continue`
Transfer(stk, pc) ==
    /\ stack' = stk
    /\ Goto(pc)
    /\ UNCHANGED <<program, scopes, cells, vstatus, result>>
    /\ UNCHANGED <<fragvars, walkvars>>

\* mutant: execute_func pops the scopes of the active calls as the error
\* returns through them
Abort_unwinds(how, stk, table, heap) ==
    /\ vstatus' = how
    /\ stack' = stk
    /\ scopes' = SubSeq(table, 1, Len(table) - (Len(frames) - 1))
    /\ cells' = heap
    /\ UNCHANGED <<program, frames, result>>
    /\ UNCHANGED <<fragvars, walkvars>>

\* execute ends with Err (how = "error": the ? operator returns through every
\* active invocation) or the thread panics (how = "panic")
Abort(how, stk, table, heap) ==
    /\ vstatus' = how
    /\ stack' = stk
    /\ scopes' = table
    /\ cells' = heap
    /\ UNCHANGED <<program, frames, result>>
    /\ UNCHANGED <<fragvars, walkvars>>

\* a pop of an empty operand stack or a variable-table call on an id outside
\* the top scope ends the run in a panic
Panic == Abort("panic", stack, scopes, cells)

\* code[pc] with pc past the end of the vector
IndexPanic ==
    /\ vstatus = "running"
    /\ ~PcValid
    /\ Panic

ExecLoadInt ==
    /\ Dispatch("LoadInt")
    /\ Continue(Append(stack, IntObject(Instr.arg)), scopes, cells)

ExecLoadBool ==
    /\ Dispatch("LoadBool")
    /\ Continue(Append(stack, BoolObject(Instr.arg = 1)), scopes, cells)

ExecLoadFloat ==
    /\ Dispatch("LoadFloat")
    /\ Continue(Append(stack, FloatObject(Instr.n, Instr.d)), scopes, cells)

ExecLoadString ==
    /\ Dispatch("LoadString")
    /\ Continue(Append(stack, StringObject(Instr.s)), scopes, cells)

ExecLoadRustFunction ==
    /\ Dispatch("LoadRustFunction")
    /\ Continue(Append(stack, RustFunctionObject(Instr.arg)), scopes, cells)

ExecLoadNil ==
    /\ Dispatch("LoadNil")
    /\ Continue(Append(stack, NilObject), scopes, cells)

ExecLoadLocal ==
    /\ Dispatch("LoadLocal")
    /\ IF scopes = <<>> \/ ~InScope(Top(scopes), Instr.arg)
       THEN Panic
       ELSE Continue(Append(stack, get(scopes, cells, Instr.arg)), scopes, cells)

\* mutant: nothing is popped
ExecUnloadTop_keeps ==
    /\ Dispatch("UnloadTop")
    /\ Continue(stack, scopes, cells)

ExecUnloadTop ==
    /\ Dispatch("UnloadTop")
    /\ IF stack = <<>> THEN Panic ELSE Continue(Popped(stack, 1), scopes, cells)

ExecSetLocal ==
    /\ Dispatch("SetLocal")
    /\ IF PopPanics(stack, 1) THEN Panic
       ELSE LET p == PopObjects(stack, 1, cells)
            IN  IF scopes = <<>> \/ ~InScope(Top(scopes), Instr.arg)
                THEN Abort("panic", Popped(stack, 1), scopes, p.heap)
                ELSE LET r == edit(scopes, p.heap, Instr.arg, p.objects[1])
                     IN  Continue(Popped(stack, 1), r.table, r.heap)

\* mutant: the entry popped becomes the variable as it is, without
\* ensure_object
ExecMakeLocal_raw ==
    /\ Dispatch("MakeLocal")
    /\ IF PopPanics(stack, 1) \/ scopes = <<>> THEN Panic
       ELSE Continue(Popped(stack, 1), push(scopes, Peek(stack, 0)), cells)

ExecMakeLocal ==
    /\ Dispatch("MakeLocal")
    /\ IF PopPanics(stack, 1) \/ scopes = <<>> THEN Panic
       ELSE LET p == PopObjects(stack, 1, cells)
            IN  Continue(Popped(stack, 1), push(scopes, p.objects[1]), p.heap)

\* the values popped come out last pushed first: array.reverse() restores the
\* order they were pushed in
ExecMakeArray ==
    /\ Dispatch("MakeArray")
    /\ IF PopPanics(stack, Instr.arg) THEN Panic
       ELSE LET p == PopObjects(stack, Instr.arg, cells)
            IN  Continue(Append(Popped(stack, Instr.arg), RawArray(Reverse(p.objects))),
                         scopes, p.heap)

\* the name is popped first (ensure_string()? is an error on any other
\* object), then the object
ExecMakeNamed ==
    /\ Dispatch("MakeNamed")
    /\ IF PopPanics(stack, 1) THEN Panic
       ELSE LET name == PopObjects(stack, 1, cells)
            IN  IF name.objects[1].t # "String"
                THEN Abort("error", Popped(stack, 1), scopes, name.heap)
                ELSE IF PopPanics(Popped(stack, 1), 1)
                THEN Abort("panic", Popped(stack, 1), scopes, name.heap)
                ELSE LET object == PopObjects(Popped(stack, 1), 1, name.heap)
                     IN  Continue(Append(Popped(stack, 2),
                                         Named(name.objects[1].s, object.objects[1])),
                                  scopes, object.heap)

\* hash_map.insert(name, value) for each pair in the order given
RECURSIVE InsertAll(_, _)
InsertAll(map, pairs) ==
    IF pairs = <<>> THEN map
    ELSE InsertAll([k \in DOMAIN map \cup {Head(pairs).name} |->
                       IF k = Head(pairs).name THEN Head(pairs).object ELSE map[k]],
                   Tail(pairs))

\* HashMap::with_capacity
EmptyMap == [k \in {} |-> NilObject]

\* the pairs are popped and inserted last pushed first (ensure_named panics on
\* an entry that is not a Named pair)
ExecMakeTable ==
    /\ Dispatch("MakeTable")
    /\ IF Len(stack) < Instr.arg
          \/ \E k \in 0..(Instr.arg - 1) : Peek(stack, k).t # "Named"
       THEN Panic
       ELSE LET pairs == [k \in 1..Instr.arg |-> Peek(stack, k - 1)]
            IN  Continue(Append(Popped(stack, Instr.arg), TableObject(Len(cells) + 1)),
                         scopes, Append(cells, MapData(InsertAll(EmptyMap, pairs))))

\* mutant: a shared cell is cleared when an entity on it is dropped
ExecDropLocal_clears ==
    /\ Dispatch("DropLocal")
    /\ IF scopes = <<>> \/ Instr.arg > Len(Top(scopes)) THEN Panic
       ELSE LET gone == {Top(scopes)[i] : i \in (Len(Top(scopes)) - Instr.arg + 1)..Len(Top(scopes))}
            IN  Continue(stack, drop(scopes, Instr.arg),
                         [r \in DOMAIN cells |->
                             IF EntityShared(r) \in gone THEN NilObject ELSE cells[r]])

ExecDropLocal ==
    /\ Dispatch("DropLocal")
    /\ IF scopes = <<>> \/ Instr.arg > Len(Top(scopes)) THEN Panic
       ELSE Continue(stack, drop(scopes, Instr.arg), cells)

\* mutant: the arm lacks its `continue`, so the loop's `pc += 1` follows
TakeJumpThenIncrement(stk) ==
    IF JumpUnderflows(Pc, Instr.arg)
    THEN Abort("panic", stk, scopes, cells)
    ELSE Transfer(stk, JumpTarget(Pc, Instr.arg) + 1)

\* the body shared by the three jump arms once the jump is taken
TakeJump(stk) ==
    IF JumpUnderflows(Pc, Instr.arg)
    THEN Abort("panic", stk, scopes, cells)
    ELSE Transfer(stk, JumpTarget(Pc, Instr.arg))

ExecJump ==
    /\ Dispatch("Jump")
    /\ TakeJump(stack)

ExecJumpIfTrue ==
    /\ Dispatch("JumpIfTrue")
    /\ IF PopPanics(stack, 1) THEN Panic
       ELSE LET p == PopObjects(stack, 1, cells)
            IN  IF p.objects[1].t # "Bool"
                THEN Abort("error", Popped(stack, 1), scopes, p.heap)
                ELSE IF p.objects[1].b
                THEN TakeJump(Popped(stack, 1))
                ELSE Continue(Popped(stack, 1), scopes, cells)

\* mutant: the jump is taken when the value popped is true
ExecJumpIfFalse_on_true ==
    /\ Dispatch("JumpIfFalse")
    /\ IF PopPanics(stack, 1) THEN Panic
       ELSE LET p == PopObjects(stack, 1, cells)
            IN  IF p.objects[1].t # "Bool"
                THEN Abort("error", Popped(stack, 1), scopes, p.heap)
                ELSE IF p.objects[1].b
                THEN TakeJump(Popped(stack, 1))
                ELSE Continue(Popped(stack, 1), scopes, cells)

ExecJumpIfFalse ==
    /\ Dispatch("JumpIfFalse")
    /\ IF PopPanics(stack, 1) THEN Panic
       ELSE LET p == PopObjects(stack, 1, cells)
            IN  IF p.objects[1].t # "Bool"
                THEN Abort("error", Popped(stack, 1), scopes, p.heap)
                ELSE IF ~p.objects[1].b
                THEN TakeJump(Popped(stack, 1))
                ELSE Continue(Popped(stack, 1), scopes, cells)

\* create_args_vec: the args_len objects popped, reversed into the order they
\* were pushed in, and the cells after the pops
\* mutant: args.reverse() is left out
create_args_vec_pop_order(args_len, stk, heap) ==
    LET p == PopObjects(stk, args_len, heap)
    IN  [args |-> p.objects, heap |-> p.heap]

create_args_vec(args_len, stk, heap) ==
    LET p == PopObjects(stk, args_len, heap)
    IN  [args |-> Reverse(p.objects), heap |-> p.heap]

\* push_ref of each cell of func.env in order
RECURSIVE PushRefs(_, _)
PushRefs(table, env) ==
    IF env = <<>> THEN table ELSE PushRefs(push_ref(table, Head(env)), Tail(env))

\* push of each argument in order
RECURSIVE PushArgs(_, _)
PushArgs(table, args) ==
    IF args = <<>> THEN table ELSE PushArgs(push(table, Head(args)), Tail(args))

\* mutant: the arguments are pushed before the captured cells
execute_func_enter_args_first(func, args, table) ==
    PushRefs(PushArgs(push_scope(table), args), func.env)

\* mutant: no scope is pushed for the call
execute_func_enter_no_scope(func, args, table) ==
    PushArgs(PushRefs(table, func.env), args)

\* execute_func up to the nested call of execute: the variable table it builds
execute_func_enter(func, args, table) ==
    PushArgs(PushRefs(push_scope(table), func.env), args)

\* mutant: the number of arguments is not checked
ArityUnchecked(func, args) == FALSE

\* `func.args.len() != args.len()`
ArityError(func, args) == Len(func.args) # Len(args)

\* the invocation of execute that execute_func starts on the body; base is the
\* variable table as execute_func found it
Invocation(code, base) == [code |-> code, pc |-> 0, base |-> base]

\* the Call arm up to the nested execute of the closure body. The callee is
\* matched as it is popped; a callee other than a function is an error (the
\* method registry of a table and the call of a native function are outside
\* the model: the action is not enabled on them).
ExecCall ==
    /\ Dispatch("Call")
    /\ IF Len(stack) < Instr.arg + 1 \/ PopPanics(stack, Instr.arg) THEN Panic
       ELSE LET a == create_args_vec(Instr.arg, stack, cells)
                callee == Peek(stack, Instr.arg)
                rest == Popped(stack, Instr.arg + 1)
            IN  /\ callee.t \notin {"Table", "RustFunction"}
                /\ IF callee.t # "Function"
                   THEN Abort("error", rest, scopes, a.heap)
                   ELSE IF ArityError(callee, a.args)
                   THEN Abort("error", rest, scopes, a.heap)
                   ELSE /\ stack' = rest
                        /\ scopes' = execute_func_enter(callee, a.args, scopes)
                        /\ cells' = a.heap
                        /\ frames' = Append(frames, Invocation(callee.code, scopes))
                        /\ UNCHANGED <<program, vstatus, result>>
                        /\ UNCHANGED <<fragvars, walkvars>>

\* the item at `index as usize` of a vector: a negative index is cast to a
\* position past the end of any vector
HasItem(items, index) == index >= 0 /\ index < Len(items)

\* mutant: a key that is present keeps its value
SetKey_absent_only(map, key, value) ==
    IF key \in DOMAIN map THEN map
    ELSE [k \in DOMAIN map \cup {key} |-> IF k = key THEN value ELSE map[k]]

\* the Table arm of SetItem: `*t = value` through get_mut when the key is
\* present, insert when it is absent
SetKey(map, key, value) ==
    IF key \in DOMAIN map THEN [map EXCEPT ![key] = value]
    ELSE [k \in DOMAIN map \cup {key} |-> IF k = key THEN value ELSE map[k]]

\* the accesser is popped first, then the target as it is, then the value;
\* the target is pushed back
ExecSetItem ==
    /\ Dispatch("SetItem")
    /\ IF Len(stack) < 3 \/ EnsurePanics(Peek(stack, 0)) \/ EnsurePanics(Peek(stack, 2))
       THEN Panic
       ELSE LET a == ensure_object(Peek(stack, 0), cells)
                target == Peek(stack, 1)
                v == ensure_object(Peek(stack, 2), a.heap)
                accesser == a.object
                value == v.object
                rest == Popped(stack, 3)
            IN  IF target.t = "RawArray"
                THEN IF accesser.t # "Int" THEN Abort("error", rest, scopes, v.heap)
                     ELSE IF ~HasItem(target.items, accesser.i)
                     THEN Abort("panic", rest, scopes, v.heap)
                     ELSE Continue(Append(rest, RawArray([target.items EXCEPT
                                                  ![accesser.i + 1] = value])),
                                   scopes, v.heap)
                ELSE IF target.t = "Array"
                THEN IF accesser.t # "Int" THEN Abort("error", rest, scopes, v.heap)
                     ELSE IF ~HasItem(v.heap[target.ref].items, accesser.i)
                     THEN Abort("panic", rest, scopes, v.heap)
                     ELSE Continue(Append(rest, target), scopes,
                                   [v.heap EXCEPT ![target.ref].items[accesser.i + 1] = value])
                ELSE IF target.t = "Table"
                THEN IF accesser.t # "String" THEN Abort("error", rest, scopes, v.heap)
                     ELSE Continue(Append(rest, target), scopes,
                                   [v.heap EXCEPT ![target.ref].map =
                                       SetKey(@, accesser.s, value)])
                ELSE Abort("error", rest, scopes, v.heap)

\* mutant: a negative index counts from the end
ItemOrNil_from_end(items, index) ==
    IF index >= 0 /\ index < Len(items) THEN items[index + 1]
    ELSE IF index < 0 /\ Len(items) + index >= 0 THEN items[Len(items) + index + 1]
    ELSE NilObject

\* array.get(index as usize), with Nil for None
ItemOrNil(items, index) == IF HasItem(items, index) THEN items[index + 1] ELSE NilObject

\* the greatest Int, i64::MAX in the program; the integers of the model are 32
\* bits wide, so the width is scaled to theirs
i64_MAX == 2147483647

\* `string.len() as i64 + i` on a non-negative i: a sum above i64::MAX
\* overflows the addition
StringIndexOverflows(chars, i) == i >= 0 /\ i > i64_MAX - chars

\* the position the String arm looks up (without overflow)
StringIndex(chars, i) == IF i >= 0 THEN chars + i ELSE i

\* the accesser is popped first, then the target as it is
ExecGetItem ==
    /\ Dispatch("GetItem")
    /\ IF Len(stack) < 2 \/ EnsurePanics(Peek(stack, 0)) THEN Panic
       ELSE LET a == ensure_object(Peek(stack, 0), cells)
                target == Peek(stack, 1)
                accesser == a.object
                rest == Popped(stack, 2)
            IN  IF target.t \in {"RawArray", "Array", "String"}
                THEN IF accesser.t # "Int" THEN Abort("error", rest, scopes, a.heap)
                     ELSE IF target.t = "RawArray"
                     THEN Continue(Append(rest, ItemOrNil(target.items, accesser.i)),
                                   scopes, a.heap)
                     ELSE IF target.t = "Array"
                     THEN Continue(Append(rest, ItemOrNil(a.heap[target.ref].items, accesser.i)),
                                   scopes, a.heap)
                     ELSE IF StringIndexOverflows(Len(target.s), accesser.i)
                     THEN \* with overflow checks the addition panics; without
                          \* them it wraps to a negative i64, which the cast
                          \* to usize puts past the end of the string
                          \/ Abort("panic", rest, scopes, a.heap)
                          \/ Continue(Append(rest, NilObject), scopes, a.heap)
                     ELSE LET index == StringIndex(Len(target.s), accesser.i)
                          IN  Continue(Append(rest,
                                           IF HasItem(target.s, index)
                                           THEN StringObject(<<target.s[index + 1]>>)
                                           ELSE NilObject),
                                       scopes, a.heap)
                ELSE IF target.t = "Table"
                THEN IF accesser.t # "String" THEN Abort("error", rest, scopes, a.heap)
                     ELSE LET map == a.heap[target.ref].map
                          IN  Continue(Append(rest, IF accesser.s \in DOMAIN map
                                                    THEN map[accesser.s] ELSE NilObject),
                                       scopes, a.heap)
                ELSE Abort("error", rest, scopes, a.heap)

\* both operands are Object::Int
BothInt(lhs, rhs) == lhs.t = "Int" /\ rhs.t = "Int"

\* the (Int, Int) arm of Add, Sub, Mul, Div and Mod
ArithInt(op, a, b) ==
    CASE op = "Add" -> a + b
      [] op = "Sub" -> a - b
      [] op = "Mul" -> a * b
      [] op = "Div" -> TruncDiv(a, b)
      [] op = "Mod" -> TruncRem(a, b)

\* the three arms with a Float operand, after the casts
ArithFloat(op, x, y) ==
    CASE op = "Add" -> FloatAdd(x, y)
      [] op = "Sub" -> FloatSub(x, y)
      [] op = "Mul" -> FloatMul(x, y)
      [] op = "Div" -> FloatDiv(x, y)
      [] op = "Mod" -> FloatRem(x, y)

\* the object an arithmetic arm pushes for two numbers
Arith(op, lhs, rhs) ==
    IF BothInt(lhs, rhs) THEN IntObject(ArithInt(op, lhs.i, rhs.i))
    ELSE ArithFloat(op, Promote(lhs), Promote(rhs))

\* Add, Sub, Mul, Div, Mod: rhs is popped first, then lhs; i64 / and % panic on
\* a zero divisor
ExecArith(op) ==
    /\ Dispatch(op)
    /\ IF PopPanics(stack, 2) THEN Panic
       ELSE LET p == PopObjects(stack, 2, cells)
                rhs == p.objects[1]
                lhs == p.objects[2]
                rest == Popped(stack, 2)
            IN  IF ~BothNumber(lhs, rhs) THEN Abort("error", rest, scopes, p.heap)
                ELSE IF BothInt(lhs, rhs) /\ op \in {"Div", "Mod"} /\ rhs.i = 0
                THEN Abort("panic", rest, scopes, p.heap)
                ELSE Continue(Append(rest, Arith(op, lhs, rhs)), scopes, p.heap)

ExecAdd == ExecArith("Add")
ExecSub == ExecArith("Sub")
ExecMul == ExecArith("Mul")
ExecDiv == ExecArith("Div")
ExecMod == ExecArith("Mod")

\* the exponent is a whole number
WholeExponent(rhs) == rhs.t = "Int" \/ rhs.d = 1
Exponent(rhs) == IF rhs.t = "Int" THEN rhs.i ELSE rhs.n

\* powf with an exponent that is not a whole number is not computed: the
\* result is a Float, any of these
PowfValues == {FloatObject(n, d) : n \in {0 - 1, 0, 1}, d \in {0, 1, 2}}

\* mutant: Int.pow(Int) is computed as powi computes it
PowIntPanicsNever(lhs, rhs) == FALSE

\* unimplemented!("Int.pow(Int) is not implemented.")
PowIntPanics(lhs, rhs) == BothInt(lhs, rhs)

ExecPow ==
    /\ Dispatch("Pow")
    /\ IF PopPanics(stack, 2) THEN Panic
       ELSE LET p == PopObjects(stack, 2, cells)
                rhs == p.objects[1]
                lhs == p.objects[2]
                rest == Popped(stack, 2)
            IN  IF ~BothNumber(lhs, rhs) THEN Abort("error", rest, scopes, p.heap)
                ELSE IF PowIntPanics(lhs, rhs) THEN Abort("panic", rest, scopes, p.heap)
                ELSE IF WholeExponent(rhs)
                THEN Continue(Append(rest, FloatPowi(Promote(lhs), Exponent(rhs))),
                              scopes, p.heap)
                ELSE \E pow \in PowfValues : Continue(Append(rest, pow), scopes, p.heap)

ExecUnm ==
    /\ Dispatch("Unm")
    /\ IF PopPanics(stack, 1) THEN Panic
       ELSE LET p == PopObjects(stack, 1, cells)
                obj == p.objects[1]
                rest == Popped(stack, 1)
            IN  IF obj.t = "Int"
                THEN Continue(Append(rest, IntObject(0 - obj.i)), scopes, p.heap)
                ELSE IF obj.t = "Float"
                THEN Continue(Append(rest, FloatNeg(obj)), scopes, p.heap)
                ELSE Abort("error", rest, scopes, p.heap)

\* `lhs == rhs` on Object: numbers compare by value across Int and Float,
\* arrays and tables by identity
ObjectEq(lhs, rhs) ==
    IF BothNumber(lhs, rhs) THEN FloatCmp(Promote(lhs), Promote(rhs)) = 0
    ELSE lhs.t = rhs.t /\ lhs = rhs

ExecEquality(op) ==
    /\ Dispatch(op)
    /\ IF PopPanics(stack, 2) THEN Panic
       ELSE LET p == PopObjects(stack, 2, cells)
                eq == ObjectEq(p.objects[2], p.objects[1])
            IN  Continue(Append(Popped(stack, 2), BoolObject(eq = (op = "Eq"))),
                         scopes, p.heap)

ExecEq == ExecEquality("Eq")
ExecNotEq == ExecEquality("NotEq")

\* <, <=, > and >= on an outcome of FloatCmp
Ordered(op, c) ==
    CASE op = "Less" -> c = 0 - 1
      [] op = "LessEq" -> c \in {0 - 1, 0}
      [] op = "Greater" -> c = 1
      [] op = "GreaterEq" -> c \in {0, 1}

\* Less, LessEq, Greater, GreaterEq: rhs is popped first, then lhs
ExecCompare(op) ==
    /\ Dispatch(op)
    /\ IF PopPanics(stack, 2) THEN Panic
       ELSE LET p == PopObjects(stack, 2, cells)
                rhs == p.objects[1]
                lhs == p.objects[2]
                rest == Popped(stack, 2)
            IN  IF ~BothNumber(lhs, rhs) THEN Abort("error", rest, scopes, p.heap)
                ELSE IF BothInt(lhs, rhs)
                THEN Continue(Append(rest, BoolObject(Ordered(op, Sign(lhs.i - rhs.i)))),
                              scopes, p.heap)
                ELSE Continue(Append(rest, BoolObject(Ordered(op,
                                  FloatCmp(Promote(lhs), Promote(rhs))))),
                              scopes, p.heap)

ExecLess == ExecCompare("Less")
ExecLessEq == ExecCompare("LessEq")
ExecGreater == ExecCompare("Greater")
ExecGreaterEq == ExecCompare("GreaterEq")

\* the local fn to_string of the Concat arm: Ok for these objects
Stringable(obj) == obj.t \in {"Int", "Float", "String", "Bool", "Nil"}

to_string(obj) ==
    CASE obj.t = "Int" -> IntToString(obj.i)
      [] obj.t = "Float" -> FloatToString(obj)
      [] obj.t = "String" -> obj.s
      [] obj.t = "Bool" -> (IF obj.b THEN <<"t", "r", "u", "e">>
                            ELSE <<"f", "a", "l", "s", "e">>)
      [] obj.t = "Nil" -> <<"n", "i", "l">>

\* rhs is popped first, then lhs (the text of a float with infinitely many
\* decimals is outside the model: the action is not enabled on it)
ExecConcat ==
    /\ Dispatch("Concat")
    /\ IF PopPanics(stack, 2) THEN Panic
       ELSE LET p == PopObjects(stack, 2, cells)
                rhs == p.objects[1]
                lhs == p.objects[2]
                rest == Popped(stack, 2)
            IN  IF ~Stringable(lhs) \/ ~Stringable(rhs)
                THEN Abort("error", rest, scopes, p.heap)
                ELSE /\ lhs.t = "Float" => HasFiniteText(lhs)
                     /\ rhs.t = "Float" => HasFiniteText(rhs)
                     /\ Continue(Append(rest, StringObject(to_string(lhs) \o to_string(rhs))),
                                 scopes, p.heap)

ExecBeginFuncCreation ==
    /\ Dispatch("BeginFuncCreation")
    /\ LET code == Cur.code
           captures == CaptureEnd(code, Pc + 1)
           arguments == ArgumentEnd(code, captures)
           body == BodyEnd(code, arguments, 0)
           ids == Operands(code, Pc + 1, captures)
       IN  IF captures = Len(code) \/ arguments = Len(code) \/ body = Len(code)
              \/ scopes = <<>> \/ CapturePanics(scopes, ids)
           THEN Panic
           ELSE LET r == CollectEnv(scopes, cells, ids, <<>>)
                    func == FunctionObject(Pc, r.env,
                                           Operands(code, captures, arguments),
                                           SubSeq(code, arguments + 1, body))
                IN  /\ stack' = Append(stack, func)
                    /\ scopes' = r.table
                    /\ cells' = r.heap
                    /\ Goto(body + 1)
                    /\ UNCHANGED <<program, vstatus, result>>
                    /\ UNCHANGED <<fragvars, walkvars>>

\* AddCapture, AddArgument and EndFuncCreation met by the dispatch itself
ExecStray ==
    /\ vstatus = "running" /\ PcValid
    /\ Instr.op \in {"AddCapture", "AddArgument", "EndFuncCreation"}
    /\ Panic

ExecNop ==
    /\ Dispatch("Nop")
    /\ Continue(stack, scopes, cells)

\* execute returns `ret`: the outermost invocation ends the run; a nested one
\* returns into execute_func (pop_scope) and the Call arm (push, pc += 1)
Finish(ret, stk, heap) ==
    IF Len(frames) = 1
    THEN /\ vstatus' = "returned"
         /\ result' = ret
         /\ stack' = stk
         /\ cells' = heap
         /\ UNCHANGED <<program, frames, scopes>>
         /\ UNCHANGED <<fragvars, walkvars>>
    ELSE IF scopes = <<>>
    THEN Abort("panic", stk, scopes, heap)
    ELSE /\ frames' = [i \in 1..(Len(frames) - 1) |->
                          IF i = Len(frames) - 1
                          THEN [frames[i] EXCEPT !.pc = @ + 1]
                          ELSE frames[i]]
         /\ scopes' = pop_scope(scopes)
         /\ stack' = Append(stk, ret)
         /\ cells' = heap
         /\ UNCHANGED <<program, vstatus, result>>
         /\ UNCHANGED <<fragvars, walkvars>>

ExecReturn ==
    /\ Dispatch("Return")
    /\ IF PopPanics(stack, 1) THEN Panic
       ELSE LET p == PopObjects(stack, 1, cells)
            IN  Finish(p.objects[1], Popped(stack, 1), p.heap)

\* mutant: Exit ends the whole execution at any depth
ExecExit_ends_run ==
    /\ Dispatch("Exit")
    /\ vstatus' = "returned"
    /\ result' = NilObject
    /\ UNCHANGED <<program, frames, stack, scopes, cells>>
    /\ UNCHANGED <<fragvars, walkvars>>

ExecExit ==
    /\ Dispatch("Exit")
    /\ Finish(NilObject, stack, cells)

(***************************************************************************)
(* The programs handed to execute. The compiler's lowering rules are not   *)
(* part of the model: each family is bytecode written for the interpreter  *)
(* above, parameterised by an input drawn from a bounded set.              *)
(***************************************************************************)
\* a counter program makes at most MaxOps calls and writes before it ends
MaxOps == 3
\* jump offsets of the jump programs range over -MaxJump .. MaxJump
MaxJump == 3
\* the loop program counts up to 0 .. MaxLoop
MaxLoop == 2
\* integer literals of the operator programs range over -MaxInt .. MaxInt
MaxInt == 3
\* a call program captures, declares and passes 0 .. MaxArgs values
MaxArgs == 2
\* a collection program builds an array or a table of 0 .. MaxItems items
MaxItems == 2

RECURSIVE Flatten(_)
Flatten(blocks) == IF blocks = <<>> THEN <<>> ELSE Head(blocks) \o Flatten(Tail(blocks))

\* sequences over S of length 0 .. n
RECURSIVE SeqsUpTo(_, _)
SeqsUpTo(S, n) ==
    IF n = 0 THEN {<<>>}
    ELSE LET shorter == SeqsUpTo(S, n - 1)
         IN  shorter \cup {Append(q, x) : q \in {r \in shorter : Len(r) = n - 1}, x \in S}

\* Counter family: `var c = 0; func inc(..) c = c + step; return c end`, then a
\* sequence of calls of inc and of writes `c = 5` in the defining scope, then
\* either `return c` or `return inc(..)`.
\*   pad    : locals defined before c, so c has local id pad and inc pad + 1
\*   arity  : 0, inc() adds 1; 1, inc(n) adds its argument, passed as 2
\*   ops    : "call" | "write", in program order
\*   finish : "read" | "call"
CounterInputs ==
    [pad : {0, 1}, arity : {0, 1},
     ops : SeqsUpTo({"call", "write"}, MaxOps), finish : {"read", "call"}]

CounterStep(in) == IF in.arity = 0 THEN 1 ELSE 2

\* in the callee's scope the captured cell is entity 0 and the argument entity 1
CounterBody(in) ==
    << LoadLocal(0), (IF in.arity = 0 THEN LoadInt(1) ELSE LoadLocal(1)), Add,
       SetLocal(0), LoadLocal(0), Return >>

CounterCallInc(in) ==
    <<LoadLocal(in.pad + 1)>> \o (IF in.arity = 0 THEN <<>> ELSE <<LoadInt(2)>>)
        \o <<Call(in.arity)>>

CounterOp(in, op) ==
    IF op = "call" THEN CounterCallInc(in) \o <<UnloadTop>>
    ELSE <<LoadInt(5), SetLocal(in.pad)>>

CounterCode(in) ==
    (IF in.pad = 0 THEN <<>> ELSE <<LoadNil, MakeLocal>>)
    \o <<LoadInt(0), MakeLocal, BeginFuncCreation, AddCapture(in.pad)>>
    \o (IF in.arity = 0 THEN <<>> ELSE <<AddArgument(0)>>)
    \o CounterBody(in)
    \o <<EndFuncCreation, MakeLocal>>
    \o Flatten([i \in DOMAIN in.ops |-> CounterOp(in, in.ops[i])])
    \o (IF in.finish = "read" THEN <<LoadLocal(in.pad)>> ELSE CounterCallInc(in))
    \o <<Return>>

\* Jump family: one jump instruction after two Nops, followed by two Nops and
\* `return nil`; a conditional jump is preceded by the LoadBool it pops.
JumpInputs ==
    [op : {"Jump", "JumpIfTrue", "JumpIfFalse"},
     offset : (0 - MaxJump)..MaxJump, cond : BOOLEAN]

JumpCode(in) ==
    <<Nop, Nop>>
    \o (IF in.op = "Jump" THEN <<>> ELSE <<LoadBool(in.cond)>>)
    \o <<Ins(in.op, in.offset), Nop, Nop, LoadNil, Return>>

\* Loop family: `var i = 0; while i < n do i = i + 1 end; return i`
LoopInputs == [n : 0..MaxLoop]

LoopCode(in) ==
    << LoadInt(0), MakeLocal,
       LoadLocal(0), LoadInt(in.n), Less, JumpIfFalse(6),
       LoadLocal(0), LoadInt(1), Add, SetLocal(0), Jump(0 - 8),
       LoadLocal(0), Return >>

\* Operator families: `return lhs op rhs`, `return -x` and a conditional jump
\* on x, for literals of every kind of object a literal can have
Literals ==
    {LoadInt(x) : x \in (0 - MaxInt)..MaxInt}
        \cup {LoadFloat(n, 2) : n \in {0 - 4, 0, 1, 3}}
        \cup {LoadNil, LoadBool(TRUE), LoadBool(FALSE), LoadString(<<"a">>)}

BinaryOps ==
    {"Add", "Sub", "Mul", "Div", "Mod", "Pow", "Eq", "NotEq",
     "Less", "LessEq", "Greater", "GreaterEq", "Concat"}

BinaryInputs == [op : BinaryOps, lhs : Literals, rhs : Literals]

BinaryCode(in) == <<in.lhs, in.rhs, Ins(in.op, 0), Return>>

UnaryInputs == [operand : Literals]

UnaryCode(in) == <<in.operand, Unm, Return>>

\* `if x then return 1 end; return 2` and its negation: the jump skips one
\* Return or falls through to it
BranchInputs == [op : {"JumpIfTrue", "JumpIfFalse"}, cond : Literals]

BranchCode(in) ==
    <<in.cond, Ins(in.op, 3), LoadInt(1), Return, LoadInt(2), Return>>

\* Call family: locals x_0 .. x_(captures-1) = 10 .. ; a closure capturing
\* them all with `arity` arguments; a call of it with `passed` arguments
\* 20 .. ; `return` of the result of the call.
\*   body : what the closure does
\*     "value"  : return 7
\*     "exit"   : Exit
\*     "locals" : define a local, assign the first entity of the scope, drop
\*                the local, return the first entity
\*     "error"  : negate nil
\*     "nested" : create a closure and return the result of calling it
\*     "nested_error" : create a closure that negates nil and call it
CallBodies == {"value", "exit", "locals", "error", "nested", "nested_error"}

CallInputs ==
    [captures : 0..MaxArgs, arity : 0..MaxArgs, passed : 0..MaxArgs, body : CallBodies]

CallBody(in) ==
    CASE in.body = "value" -> <<LoadInt(7), Return>>
      [] in.body = "exit" -> <<Exit>>
      [] in.body = "locals" ->
            <<LoadInt(1), MakeLocal, LoadInt(8), SetLocal(0), DropLocal(1),
              LoadLocal(0), Return>>
      [] in.body = "error" -> <<LoadNil, Unm, Return>>
      [] in.body = "nested" ->
            <<BeginFuncCreation, LoadInt(7), Return, EndFuncCreation, Call(0), Return>>
      [] in.body = "nested_error" ->
            <<BeginFuncCreation, LoadNil, Unm, Return, EndFuncCreation, Call(0), Return>>

\* the index of the BeginFuncCreation of the closure and of its Call
CallBegin(in) == 2 * in.captures
CallAt(in) == 2 * in.captures + 1 + in.captures + in.arity + Len(CallBody(in)) + 1 + in.passed

CallCode(in) ==
    Flatten([i \in 1..in.captures |-> <<LoadInt(9 + i), MakeLocal>>])
    \o <<BeginFuncCreation>>
    \o [i \in 1..in.captures |-> AddCapture(i - 1)]
    \o [j \in 1..in.arity |-> AddArgument(j - 1)]
    \o CallBody(in)
    \o <<EndFuncCreation>>
    \o [j \in 1..in.passed |-> LoadInt(19 + j)]
    \o <<Call(in.passed), Return>>

\* Collection family: an array or a string of n items read or written at
\* index (the greatest Int among the indices), directly as the literal or
\* through a local
CollectionInputs ==
    [kind : {"raw_get", "array_get", "raw_set", "array_set", "string_get"},
     n : 0..MaxItems, index : ((0 - 1)..MaxItems) \cup {i64_MAX}]

\* the string literal of n distinct characters
StringLiteral(n) == LoadString([i \in 1..n |-> <<"p", "q", "r", "s", "t", "u">>[i]])

ArrayLiteral(n) == [i \in 1..n |-> LoadInt(9 + i)] \o <<MakeArray(n)>>

CollectionCode(in) ==
    CASE in.kind = "raw_get" ->
            ArrayLiteral(in.n) \o <<LoadInt(in.index), GetItem, Return>>
      [] in.kind = "array_get" ->
            ArrayLiteral(in.n)
            \o <<MakeLocal, LoadLocal(0), LoadInt(in.index), GetItem, Return>>
      [] in.kind = "raw_set" ->
            <<LoadInt(99)>> \o ArrayLiteral(in.n)
            \o <<LoadInt(in.index), SetItem, Return>>
      [] in.kind = "array_set" ->
            ArrayLiteral(in.n)
            \o <<MakeLocal, LoadInt(99), LoadLocal(0), LoadInt(in.index), SetItem,
                 UnloadTop, LoadLocal(0), LoadInt(in.index), GetItem, Return>>
      [] in.kind = "string_get" ->
            <<StringLiteral(in.n), LoadInt(in.index), GetItem, Return>>

\* Table family: a table literal with the names given, in order, and the
\* values 10 .. ; read at key, directly or after a write of 99 at key
TableInputs ==
    [kind : {"get", "set"}, names : SeqsUpTo({"a", "b"}, MaxItems),
     key : {"a", "b", "c"}]

TableLiteral(names) ==
    Flatten([i \in 1..Len(names) |->
                <<LoadInt(9 + i), LoadString(<<names[i]>>), MakeNamed>>])
    \o <<MakeTable(Len(names))>>

TableCode(in) ==
    IF in.kind = "get"
    THEN TableLiteral(in.names) \o <<LoadString(<<in.key>>), GetItem, Return>>
    ELSE <<LoadInt(99)>> \o TableLiteral(in.names)
         \o <<LoadString(<<in.key>>), SetItem, LoadString(<<in.key>>), GetItem, Return>>

\* Orphan family: a closure that adds 1 to a variable x it captured and returns
\* it is called, calls + 1 times, after x has gone; the last result is returned.
\*   kind "drop"  : `var f; var x = 10; f = func() x = x + 1; return x end;
\*                  x = 20`, then DropLocal(1) removes x and `var y = 50` takes
\*                  its local id 1; after the first calls y = 60 is written
\*   kind "scope" : `var g = (func() var x = 10; <the closure>; x = 20;
\*                  return <the closure> end)()`: the scope of x is popped when
\*                  the outer function returns, and g takes local id 0, as x had
OrphanInputs == [kind : {"drop", "scope"}, calls : 0..MaxOps]

OrphanClosure(id) ==
    << BeginFuncCreation, AddCapture(id),
       LoadLocal(0), LoadInt(1), Add, SetLocal(0), LoadLocal(0), Return,
       EndFuncCreation >>

OrphanCalls(in) ==
    Flatten([i \in 1..in.calls |-> <<LoadLocal(0), Call(0), UnloadTop>>])

OrphanCode(in) ==
    IF in.kind = "drop"
    THEN <<LoadNil, MakeLocal, LoadInt(10), MakeLocal>>
         \o OrphanClosure(1)
         \o <<SetLocal(0), LoadInt(20), SetLocal(1), DropLocal(1), LoadInt(50), MakeLocal>>
         \o OrphanCalls(in)
         \o <<LoadInt(60), SetLocal(1), LoadLocal(0), Call(0), Return>>
    ELSE <<BeginFuncCreation, LoadInt(10), MakeLocal>>
         \o OrphanClosure(0)
         \o <<LoadInt(20), SetLocal(0), Return, EndFuncCreation, Call(0), MakeLocal>>
         \o OrphanCalls(in)
         \o <<LoadLocal(0), Call(0), Return>>

\* `var x = 5; (func() var y = 6; <7 left on the stack> exit; return 8 end)();
\* return x`
ExitInBodyCode ==
    << LoadInt(5), MakeLocal, BeginFuncCreation, AddCapture(0),
       LoadInt(6), MakeLocal, LoadInt(7), Exit, LoadInt(8), Return,
       EndFuncCreation, Call(0), LoadLocal(0), Return >>

\* Single programs: scope bookkeeping, Exit, and the fatal cases
PlainPrograms ==
    { ExitInBodyCode,
      << LoadInt(1), MakeLocal, LoadBool(TRUE), MakeLocal, DropLocal(1),
         LoadLocal(0), UnloadTop, Exit >>,
      << LoadNil, MakeLocal, AddCapture(0), Exit >>,
      << BeginFuncCreation, Exit, EndFuncCreation, Call(0), Return >>,
      << LoadInt(1), LoadNil, Add, Return >>,
      << LoadNil, Nop >>,
      << LoadInt(1), Exit >>,
      << LoadRustFunction(0), UnloadTop, MakeArray(0), JumpIfTrue(1), Exit >>,
      << LoadInt(1), LoadInt(2), MakeNamed, Exit >>,
      << LoadInt(1), MakeTable(1), Exit >>,
      << LoadInt(1), LoadInt(2), LoadInt(3), SetItem, Exit >>,
      << LoadInt(1), LoadNil, LoadString(<<"a">>), GetItem, Exit >>,
      << MakeArray(0), LoadNil, GetItem, Exit >>,
      << MakeTable(0), LoadInt(0), GetItem, Exit >>,
      << LoadInt(1), MakeTable(0), LoadInt(0), SetItem, Exit >>,
      << MakeArray(0), LoadNil, Concat, Exit >>,
      << LoadInt(1), LoadInt(2), Call(1), Exit >> }

Programs ==
    {[family |-> "counter", input |-> in, code |-> CounterCode(in)] : in \in CounterInputs}
    \cup {[family |-> "jump", input |-> in, code |-> JumpCode(in)] : in \in JumpInputs}
    \cup {[family |-> "loop", input |-> in, code |-> LoopCode(in)] : in \in LoopInputs}
    \cup {[family |-> "binary", input |-> in, code |-> BinaryCode(in)] : in \in BinaryInputs}
    \cup {[family |-> "unary", input |-> in, code |-> UnaryCode(in)] : in \in UnaryInputs}
    \cup {[family |-> "branch", input |-> in, code |-> BranchCode(in)] : in \in BranchInputs}
    \cup {[family |-> "call", input |-> in, code |-> CallCode(in)] : in \in CallInputs}
    \cup {[family |-> "collection", input |-> in, code |-> CollectionCode(in)] :
              in \in CollectionInputs}
    \cup {[family |-> "table", input |-> in, code |-> TableCode(in)] : in \in TableInputs}
    \cup {[family |-> "orphan", input |-> in, code |-> OrphanCode(in)] : in \in OrphanInputs}
    \cup {[family |-> "plain", input |-> <<>>, code |-> c] : c \in PlainPrograms}

\* execute(code, runtime) on a fresh runtime
Init ==
    /\ frags = [f \in Slots |-> new]
    /\ finalized = <<>>
    /\ debug_assertions = FALSE
    /\ fstatus = "ok"
    /\ last = [op |-> "new", slot |-> 1, pre |-> new, arg |-> new, offset |-> 0]
    /\ program \in Programs
    /\ frames = <<Invocation(program.code, VariableTable_new)>>
    /\ stack = <<>>
    /\ scopes = VariableTable_new
    /\ cells = <<>>
    /\ vstatus = "running"
    /\ result = NilObject
    /\ NoWalk

Next ==
    \/ IndexPanic
    \/ ExecLoadInt
    \/ ExecLoadBool
    \/ ExecLoadFloat
    \/ ExecLoadString
    \/ ExecLoadRustFunction
    \/ ExecLoadNil
    \/ ExecLoadLocal
    \/ ExecUnloadTop
    \/ ExecSetLocal
    \/ ExecMakeLocal
    \/ ExecMakeArray
    \/ ExecMakeNamed
    \/ ExecMakeTable
    \/ ExecDropLocal
    \/ ExecJump
    \/ ExecJumpIfTrue
    \/ ExecJumpIfFalse
    \/ ExecCall
    \/ ExecSetItem
    \/ ExecGetItem
    \/ ExecAdd
    \/ ExecSub
    \/ ExecMul
    \/ ExecDiv
    \/ ExecMod
    \/ ExecPow
    \/ ExecUnm
    \/ ExecEq
    \/ ExecNotEq
    \/ ExecLess
    \/ ExecLessEq
    \/ ExecGreater
    \/ ExecGreaterEq
    \/ ExecConcat
    \/ ExecBeginFuncCreation
    \/ ExecStray
    \/ ExecNop
    \/ ExecReturn
    \/ ExecExit

Spec == Init /\ [][Next]_vars

(***************************************************************************)
(* Analysis of variable statements (parser/src/tree/variable_statement.rs).*)
(* A Local is a plain variable or a field of a table, of which analyze     *)
(* reads the root name only. The Tracker keeps a stack of definition       *)
(* scopes, each with the names defined in it and the names captured in it. *)
(* An expression is a literal: its analysis makes no call on the tracker.  *)
(***************************************************************************)
\* function statements nest at most MaxNest deep
MaxNest == 2

Variable(name) == [kind |-> "Variable", name |-> name]
TableField(name) == [kind |-> "TableField", name |-> name]

Var(lhs) == [kind |-> "Var", lhs |-> lhs]
Let(lhs) == [kind |-> "Let", lhs |-> lhs]
Assign(lhs) == [kind |-> "Assign", lhs |-> lhs]
Func(name, args, body) == [kind |-> "Func", name |-> name, args |-> args, body |-> body]

\* Tracker::new: the scope of the outermost chunk
DefinitionScope == [definitions |-> {}, captures |-> {}]
Tracker_new == <<DefinitionScope>>

add_definition(tr, name) ==
    [tr EXCEPT ![Len(tr)].definitions = @ \cup {name}]

add_capture(tr, name) ==
    [tr EXCEPT ![Len(tr)].captures = @ \cup {name}]

push_new_definition_scope(tr) == Append(tr, DefinitionScope)

pop_current_definition_scope(tr) == SubSeq(tr, 1, Len(tr) - 1)

\* a call analyze makes, as it is logged in calls
Made(call, name) == [call |-> call, name |-> name]

\* the tracker after one call
Apply(tr, c) ==
    CASE c.call = "add_definition" -> add_definition(tr, c.name)
      [] c.call = "add_capture" -> add_capture(tr, c.name)
      [] c.call = "push_new_definition_scope" -> push_new_definition_scope(tr)
      [] c.call = "pop_current_definition_scope" -> pop_current_definition_scope(tr)
      [] c.call = "rhs.analyze" -> tr

RECURSIVE ApplyAll(_, _)
ApplyAll(tr, cs) ==
    IF cs = <<>> THEN tr ELSE ApplyAll(Apply(tr, Head(cs)), Tail(cs))

\* mutant: a bare assignment to a plain variable declares it
AssignTarget_declares(lhs) ==
    IF lhs.kind = "TableField" THEN Made("add_capture", lhs.name)
    ELSE Made("add_definition", lhs.name)

\* the match on the target of var, let and func: a table field captures its
\* root name, a plain variable is defined
DeclareTarget(lhs) ==
    IF lhs.kind = "TableField" THEN Made("add_capture", lhs.name)
    ELSE Made("add_definition", lhs.name)

\* the match on the target of an assignment: both arms capture
AssignTarget(lhs) ==
    IF lhs.kind = "TableField" THEN Made("add_capture", lhs.name)
    ELSE Made("add_capture", lhs.name)

\* mutant: the parameters are defined before the scope of the function is
\* pushed
FuncCalls_args_outside(stmt) ==
    <<DeclareTarget(stmt.name)>>
        \o [i \in 1..Len(stmt.args) |-> Made("add_definition", stmt.args[i])]
        \o <<Made("push_new_definition_scope", "")>>

\* the calls of the Func arm before body.analyze
FuncCalls(stmt) ==
    <<DeclareTarget(stmt.name), Made("push_new_definition_scope", "")>>
        \o [i \in 1..Len(stmt.args) |-> Made("add_definition", stmt.args[i])]

\* what the walk has still to do
ToAnalyze(stmt) == [do |-> "analyze", node |-> stmt]
\* depth is the number of scopes the tracker had when the Func arm was entered
ToPop(depth) == [do |-> "pop", depth |-> depth]

Analyzing(kind) ==
    /\ pending # <<>>
    /\ Head(pending).do = "analyze"
    /\ Head(pending).node.kind = kind

WalkFrame ==
    /\ UNCHANGED tree
    /\ UNCHANGED <<fragvars, vmvars>>

\* the calls cs are made and the walk goes on with rest
Walked(cs, rest) ==
    /\ tracker' = ApplyAll(tracker, cs)
    /\ calls' = calls \o cs
    /\ pending' = rest
    /\ WalkFrame

AnalyzeVar ==
    /\ Analyzing("Var")
    /\ Walked(<<DeclareTarget(Head(pending).node.lhs), Made("rhs.analyze", "")>>,
              Tail(pending))

AnalyzeLet ==
    /\ Analyzing("Let")
    /\ Walked(<<DeclareTarget(Head(pending).node.lhs), Made("rhs.analyze", "")>>,
              Tail(pending))

AnalyzeAssign ==
    /\ Analyzing("Assign")
    /\ Walked(<<AssignTarget(Head(pending).node.lhs), Made("rhs.analyze", "")>>,
              Tail(pending))

\* the Func arm up to body.analyze: the statements of the body are analyzed
\* next, in order, and then the scope is popped
AnalyzeFunc ==
    /\ Analyzing("Func")
    /\ LET stmt == Head(pending).node
       IN  Walked(FuncCalls(stmt),
                  [i \in 1..Len(stmt.body) |-> ToAnalyze(stmt.body[i])]
                      \o <<ToPop(Len(tracker))>> \o Tail(pending))

\* the Func arm after body.analyze
AnalyzeFuncEnd ==
    /\ pending # <<>>
    /\ Head(pending).do = "pop"
    /\ Walked(<<Made("pop_current_definition_scope", "")>>, Tail(pending))

\* the statements analyzed: var, let and assignment to a plain variable or to
\* a table field, and function statements nested up to depth deep
Targets == {Variable("a"), TableField("b")}
Simple == {Var(l) : l \in Targets} \cup {Let(l) : l \in Targets}
              \cup {Assign(l) : l \in Targets}
ArgLists == {<<>>, <<"a">>, <<"b", "c">>}

RECURSIVE Statements(_)
Statements(depth) ==
    IF depth = 0 THEN Simple
    ELSE LET inner == Statements(depth - 1)
             bodies == {<<>>} \cup {<<x>> : x \in inner}
                           \cup {<<x, Assign(Variable("a"))>> : x \in inner}
         IN  Simple \cup {Func(n, a, b) : n \in Targets, a \in ArgLists, b \in bodies}

WalkInit ==
    /\ frags = [f \in Slots |-> new]
    /\ finalized = <<>>
    /\ debug_assertions = FALSE
    /\ fstatus = "ok"
    /\ last = [op |-> "new", slot |-> 1, pre |-> new, arg |-> new, offset |-> 0]
    /\ program = Idle
    /\ frames = <<>>
    /\ stack = <<>>
    /\ scopes = <<>>
    /\ cells = <<>>
    /\ vstatus = "idle"
    /\ result = NilObject
    /\ tree \in Statements(MaxNest)
    /\ pending = <<ToAnalyze(tree)>>
    /\ tracker = Tracker_new
    /\ calls = <<>>

WalkNext ==
    \/ AnalyzeVar
    \/ AnalyzeLet
    \/ AnalyzeAssign
    \/ AnalyzeFunc
    \/ AnalyzeFuncEnd

WalkSpec == WalkInit /\ [][WalkNext]_vars

(***************************************************************************)
(* Properties of the fragment assembler (checked under FragSpec)           *)
(***************************************************************************)
Range(s) == {s[i] : i \in DOMAIN s}

\* the receiver before and after the last call, and the fragment passed to it
Pre == last.pre
Post == frags[last.slot]
Arg == last.arg

Spliced == last.op = "append_fragment"
PatchedForward == last.op = "patch_forward_jump" /\ fstatus = "ok"
PatchedBackward == last.op = "patch_backward_jump" /\ fstatus = "ok"

\* C1 as the specification states it (the splice swap law): after
\* append_fragment(inner) on an outer of pre-splice length L, outer's backward
\* list includes p + L for every p of inner's forward list and outer's forward
\* list includes p + L for every p of inner's backward list.
C1_SpliceSwapLaw ==
    Spliced =>
        /\ \A p \in Range(Arg.forward_jump_pos) :
               p + Len(Pre.code) \in Range(Post.backward_jump_pos)
        /\ \A p \in Range(Arg.backward_jump_pos) :
               p + Len(Pre.code) \in Range(Post.forward_jump_pos)

\* C1 amended: append_fragment(inner) keeps each list on its side: outer's
\* forward list includes p + L for every p of inner's forward list and outer's
\* backward list includes p + L for every p of inner's backward list.
C1_SpliceKeepsSides ==
    Spliced =>
        /\ \A p \in Range(Arg.forward_jump_pos) :
               p + Len(Pre.code) \in Range(Post.forward_jump_pos)
        /\ \A p \in Range(Arg.backward_jump_pos) :
               p + Len(Pre.code) \in Range(Post.backward_jump_pos)

\* a splice of an inner fragment with a pending forward jump onto a non-empty outer
C1_Witness ==
    /\ Spliced
    /\ Arg.forward_jump_pos # <<>>
    /\ Arg.backward_jump_pos = <<>>
    /\ Len(Pre.code) > 0

\* C2: append_fragment(inner) on an outer of pre-splice length L yields
\* code = outer.code followed by inner.code, forward list = outer's forward list
\* followed by inner's forward positions + L, backward list = outer's backward
\* list followed by inner's backward positions + L; nothing of outer changes.
C2_SpliceConcatenates ==
    Spliced =>
        /\ Post.code = Pre.code \o Arg.code
        /\ Post.forward_jump_pos =
               Pre.forward_jump_pos \o
               [i \in DOMAIN Arg.forward_jump_pos |-> Arg.forward_jump_pos[i] + Len(Pre.code)]
        /\ Post.backward_jump_pos =
               Pre.backward_jump_pos \o
               [i \in DOMAIN Arg.backward_jump_pos |-> Arg.backward_jump_pos[i] + Len(Pre.code)]
        /\ \A i \in DOMAIN Pre.code : Post.code[i] = Pre.code[i]
        /\ \A i \in DOMAIN Pre.forward_jump_pos :
               Post.forward_jump_pos[i] = Pre.forward_jump_pos[i]
        /\ \A i \in DOMAIN Pre.backward_jump_pos :
               Post.backward_jump_pos[i] = Pre.backward_jump_pos[i]

\* a splice where outer and inner both hold a pending jump
C2_Witness ==
    /\ Spliced
    /\ Pre.backward_jump_pos # <<>>
    /\ Arg.backward_jump_pos # <<>>

\* C3: for a fragment of length L with pending forward positions p,
\* patch_forward_jump(k) sets code[p] to Jump(L - p - 1 + k) for every p, for
\* k of either sign, empties the forward list, and changes no other
\* instruction and not the backward list.
C3_ForwardPatch ==
    PatchedForward =>
        /\ Len(Post.code) = Len(Pre.code)
        /\ \A p \in 0..(Len(Pre.code) - 1) :
               IF p \in Range(Pre.forward_jump_pos)
               THEN At(Post.code, p) = Jump(Len(Pre.code) - p - 1 + last.offset)
               ELSE At(Post.code, p) = At(Pre.code, p)
        /\ Post.forward_jump_pos = <<>>
        /\ Post.backward_jump_pos = Pre.backward_jump_pos

\* a forward patch with a negative offset next to a pending backward jump
C3_Witness ==
    /\ PatchedForward
    /\ Pre.forward_jump_pos # <<>>
    /\ Pre.backward_jump_pos # <<>>
    /\ last.offset < 0

\* C4: for a fragment with pending backward positions p,
\* patch_backward_jump(k) sets code[p] to Jump(-p + k) for every p, for k of
\* either sign, empties the backward list, and changes no other instruction
\* and not the forward list.
C4_BackwardPatch ==
    PatchedBackward =>
        /\ Len(Post.code) = Len(Pre.code)
        /\ \A p \in 0..(Len(Pre.code) - 1) :
               IF p \in Range(Pre.backward_jump_pos)
               THEN At(Post.code, p) = Jump((0 - p) + last.offset)
               ELSE At(Post.code, p) = At(Pre.code, p)
        /\ Post.backward_jump_pos = <<>>
        /\ Post.forward_jump_pos = Pre.forward_jump_pos

\* a backward patch with a positive offset next to a pending forward jump
C4_Witness ==
    /\ PatchedBackward
    /\ Pre.backward_jump_pos # <<>>
    /\ Pre.forward_jump_pos # <<>>
    /\ last.offset > 0

\* C5: the vector into_code returns for a fragment whose pending lists are
\* both empty holds no Jump(0), whatever offsets the patches were given.
C5_NoPlaceholderFinalized ==
    (/\ fstatus = "finalized"
     /\ Pre.forward_jump_pos = <<>>
     /\ Pre.backward_jump_pos = <<>>)
        => \A i \in DOMAIN finalized : finalized[i] # Jump(0)

\* C6: in every reachable state every index of a pending list lies inside the
\* code vector and the instruction there is Jump(0).
C6_PendingArePlaceholders ==
    \A f \in Slots :
        \A p \in Range(frags[f].forward_jump_pos) \cup Range(frags[f].backward_jump_pos) :
            /\ p < Len(frags[f].code)
            /\ At(frags[f].code, p) = Jump(0)

\* a backward patch has run while a forward jump is still pending
C6_Witness ==
    /\ PatchedBackward
    /\ Pre.backward_jump_pos # <<>>
    /\ Post.forward_jump_pos # <<>>
    /\ \E i \in DOMAIN Post.code : Post.code[i].op = "Jump" /\ Post.code[i].arg # 0

\* C7 as the specification states it: a forward jump patched by
\* patch_forward_jump(offset) on a fragment of length len, executed by the VM
\* with the fragment at base b of the code vector, transfers control to
\* fragment position len + offset.
C7_ForwardLandsAtLenPlusOffset ==
    PatchedForward =>
        \A p \in Range(Pre.forward_jump_pos), b \in Bases :
            ~JumpUnderflows(b + p, At(Post.code, p).arg) =>
                JumpTarget(b + p, At(Post.code, p).arg) = b + Len(Pre.code) + last.offset

\* C7 amended: the jump transfers control to fragment position
\* len - 1 + offset (offset 0: the last instruction of the fragment as it is
\* when patched); when that position lies before the start of the code vector
\* the pc subtraction underflows.
C7_ForwardLandsAtLastPlusOffset ==
    PatchedForward =>
        \A p \in Range(Pre.forward_jump_pos), b \in Bases :
            IF b + Len(Pre.code) - 1 + last.offset < 0
            THEN JumpUnderflows(b + p, At(Post.code, p).arg)
            ELSE /\ ~JumpUnderflows(b + p, At(Post.code, p).arg)
                 /\ JumpTarget(b + p, At(Post.code, p).arg) =
                        b + Len(Pre.code) - 1 + last.offset

\* a forward jump that is not the last instruction is patched with offset 0
C7_Witness ==
    /\ PatchedForward
    /\ last.offset = 0
    /\ \E p \in Range(Pre.forward_jump_pos) : p < Len(Pre.code) - 1

\* C8: a backward jump patched by patch_backward_jump(offset), executed by the
\* VM with the fragment at base b of the code vector, transfers control to
\* position offset from the start of the fragment, whatever the index of the
\* jump; when that position lies before the start of the code vector the pc
\* subtraction underflows.
C8_BackwardLandsAtOffset ==
    PatchedBackward =>
        \A p \in Range(Pre.backward_jump_pos), b \in Bases :
            IF b + last.offset < 0
            THEN JumpUnderflows(b + p, At(Post.code, p).arg)
            ELSE /\ ~JumpUnderflows(b + p, At(Post.code, p).arg)
                 /\ JumpTarget(b + p, At(Post.code, p).arg) = b + last.offset

\* a backward jump that is not the first instruction is patched
C8_Witness ==
    /\ PatchedBackward
    /\ \E p \in Range(Pre.backward_jump_pos) : p > 0

(***************************************************************************)
(* Properties of the variable table (checked under TableSpec)              *)
(***************************************************************************)
\* the last call returned (it did not panic)
Returned(ops) == last.op \in ops /\ vstatus = "idle"

\* the entity the last call addressed, before and after the call
EntityBefore == At(Top(last.pre), last.id)
EntityAfter == At(Top(scopes), last.id)

\* positions <<depth, index>> of the entities of a table
Places(table) ==
    {pl \in (DOMAIN table) \X (1..MaxTable) : pl[2] <= Len(table[pl[1]])}

\* C11 (get_ref upgrade): get_ref(id) on an OwnedValue(v) entity replaces that
\* entity in place by a SharedCell on a new cell holding v and returns that
\* cell, leaving the other entities and cells as they were; get_ref(id) on a
\* SharedCell entity returns its cell and changes nothing, so every later
\* get_ref(id) on the entity returns the cell the first one returned; get(id)
\* yields the same value before and after get_ref(id); and get, edit and
\* get_ref leave every SharedCell entity a SharedCell on the same cell.
C11_GetRefUpgrade ==
    /\ Returned({"get_ref"}) =>
           /\ EntityAfter = EntityShared(last.cell)
           /\ get(scopes, cells, last.id) = get(last.pre, last.preheap, last.id)
           /\ \A pl \in Places(last.pre) :
                  (pl # <<Len(last.pre), last.id + 1>>) =>
                      scopes[pl[1]][pl[2]] = last.pre[pl[1]][pl[2]]
           /\ Places(scopes) = Places(last.pre)
           /\ IF EntityBefore.kind = "Value"
              THEN /\ last.cell \notin DOMAIN last.preheap
                   /\ cells = Append(last.preheap, EntityBefore.object)
                   /\ cells[last.cell] = EntityBefore.object
              ELSE /\ last.cell = EntityBefore.cell
                   /\ scopes = last.pre
                   /\ cells = last.preheap
    /\ \A g \in last.granted :
           /\ g.depth <= Len(scopes)
           /\ InScope(scopes[g.depth], g.id)
           /\ At(scopes[g.depth], g.id) = EntityShared(g.cell)
    /\ Returned({"get", "edit", "get_ref"}) =>
           \A pl \in Places(last.pre) :
               last.pre[pl[1]][pl[2]].kind = "Shared" =>
                   /\ pl \in Places(scopes)
                   /\ scopes[pl[1]][pl[2]] = last.pre[pl[1]][pl[2]]

\* a second get_ref(id) on an entity get_ref upgraded earlier, after an edit
\* changed the value its cell was created with
C11_Witness ==
    /\ Returned({"get_ref"})
    /\ EntityBefore.kind = "Shared"
    /\ Granted(Len(last.pre), last.id, last.cell) \in last.pregranted
    /\ cells[last.cell] = IntObject(1)
    /\ Top(scopes) = <<EntityValue(IntObject(0)), EntityShared(last.cell)>>

\* C25 as the specification states it: after any sequence of calls on a
\* table created by new() in which no call panics, the table holds at least
\* one scope.
C25_NeverEmpty == vstatus # "panic" => Len(scopes) >= 1

\* the methods that act on the top scope
TopScopeOps == {"push", "push_ref", "drop", "get", "edit", "get_ref"}

\* the object an entity stands for
ValueOf(entity, heap) ==
    IF entity.kind = "Value" THEN entity.object ELSE heap[entity.cell]

\* C26 (top scope only): push, push_ref, drop, get, edit and get_ref read and
\* change the top scope only: every other scope keeps its entities, their
\* order, their kind and the values of its OwnedValue entities, and a cell
\* changes its content only by an edit of an entity of the top scope that
\* shares it; get yields what the entity of the top scope stands for; an id or
\* a count outside the top scope is a panic, whatever the outer scopes hold.
C26_TopScopeOnly ==
    /\ Returned(TopScopeOps) =>
           /\ Len(scopes) = Len(last.pre)
           /\ \A d \in 1..(Len(scopes) - 1) : scopes[d] = last.pre[d]
           /\ \A c \in DOMAIN last.preheap :
                  cells[c] # last.preheap[c] =>
                      /\ last.op = "edit"
                      /\ EntityBefore = EntityShared(c)
           /\ last.op = "get" => last.value = ValueOf(EntityBefore, last.preheap)
           /\ last.op = "edit" => ValueOf(EntityAfter, cells) = last.object
    /\ (last.op \in {"get", "edit", "get_ref"} /\ last.pre # <<>>
            /\ last.id >= Len(Top(last.pre))) => vstatus = "panic"
    /\ (last.op = "drop" /\ last.pre # <<>> /\ last.id > Len(Top(last.pre))) =>
           vstatus = "panic"

\* edit(0, 1) in a second scope whose entity 0 is an OwnedValue, above a
\* scope whose entity 0 is an OwnedValue too: the outer one is unchanged
C26_Witness ==
    /\ Returned({"edit"})
    /\ last.id = 0
    /\ last.object = IntObject(1)
    /\ last.pre = << <<EntityValue(IntObject(0))>>, <<EntityValue(IntObject(0))>> >>
    /\ scopes = << <<EntityValue(IntObject(0))>>, <<EntityValue(IntObject(1))>> >>

(***************************************************************************)
(* Properties of the interpreter (checked under Spec)                      *)
(***************************************************************************)
\* the instruction about to be dispatched is a jump that will be taken
JumpTaken ==
    /\ vstatus = "running"
    /\ PcValid
    /\ \/ Instr.op = "Jump"
       \/ /\ Instr.op \in {"JumpIfTrue", "JumpIfFalse"}
          /\ stack # <<>>
          /\ Peek(stack, 0).t = "Bool"
          /\ Peek(stack, 0).b = (Instr.op = "JumpIfTrue")

\* the same invocation of execute goes on to dispatch the instruction at pc
DispatchesNext(pc) ==
    /\ vstatus' = "running"
    /\ Len(frames') = Len(frames)
    /\ Cur'.code = Cur.code
    /\ Cur'.pc = pc

\* C9 as the specification states it: when Jump(k), a JumpIfTrue(k) that pops
\* true or a JumpIfFalse(k) that pops false is executed at index p, the next
\* instruction dispatched is the one at index p + 1 + k.
C9_JumpRelativeToNext ==
    [][JumpTaken /\ Pc + 1 + Instr.arg >= 0 => DispatchesNext(Pc + 1 + Instr.arg)]_vars

\* C9 amended: the offset is relative to the jump itself: the next instruction
\* dispatched is the one at index p + k, with no further pc increment (when
\* p + k is below 0 the pc subtraction underflows and the run ends in a panic).
C9_JumpRelativeToSelf ==
    [][JumpTaken =>
          IF Pc + Instr.arg >= 0
          THEN DispatchesNext(Pc + Instr.arg)
          ELSE vstatus' = "panic"]_vars

\* JumpIfFalse(3) at index 3 popped false: index 6 is dispatched next, with
\* the operand stack empty again (indices 4 and 5 were skipped)
C9_Witness ==
    /\ program.family = "jump"
    /\ program.input.op = "JumpIfFalse"
    /\ program.input.offset = 3
    /\ ~program.input.cond
    /\ vstatus = "running"
    /\ Pc = 6
    /\ stack = <<>>

\* the value of c after the calls and writes of a counter program, c = 0 first
RECURSIVE CounterAfter(_, _, _)
CounterAfter(ops, c, step) ==
    IF ops = <<>> THEN c
    ELSE CounterAfter(Tail(ops), IF Head(ops) = "call" THEN c + step ELSE 5, step)

\* what the program returns: c, or the result of one more call of inc
CounterExpected(in) ==
    CounterAfter(in.ops, 0, CounterStep(in))
        + (IF in.finish = "call" THEN CounterStep(in) ELSE 0)

\* C10 (closure capture identity): for a closure created with AddCapture(id)
\* in scope S, every write to the captured slot during a call is what
\* LoadLocal(id) reads in S afterwards, every write to id in S after the
\* creation is what the next call reads, and successive calls see each
\* other's writes: the program returns the count of all of them, and during a
\* call the callee's injected entity and S's entity id read the same value.
C10_CaptureIdentity ==
    program.family = "counter" =>
        /\ vstatus \in {"running", "returned"}
        /\ vstatus = "returned" =>
               result = IntObject(CounterExpected(program.input))
        /\ (vstatus = "running" /\ Len(frames) = 2) =>
               /\ Len(scopes) = 2
               /\ Scope_get(scopes[2], cells, 0) =
                      Scope_get(scopes[1], cells, program.input.pad)

\* `var c = 0; func inc() c = c + 1; return c end; inc(); inc(); inc()`
\* has returned 3
C10_Witness ==
    /\ program.family = "counter"
    /\ program.input.arity = 0
    /\ program.input.ops = <<"call", "call">>
    /\ program.input.finish = "call"
    /\ vstatus = "returned"
    /\ result = IntObject(3)

\* the instruction about to be dispatched by a running interpreter is op
About(ops) == vstatus = "running" /\ PcValid /\ Instr.op \in ops

\* the object ensure_object makes of a stack entry, as the cells hold it after
\* the step: a RawArray has become an Array on a vector of its items
IsObjectOf(object, entry) ==
    IF entry.t = "RawArray"
    THEN object.t = "Array" /\ cells'[object.ref] = VecData(entry.items)
    ELSE object = entry

\* a Call that finds a function and as many arguments as it declares
CallEnters ==
    /\ About({"Call"})
    /\ Len(stack) >= Instr.arg + 1
    /\ ~PopPanics(stack, Instr.arg)
    /\ Peek(stack, Instr.arg).t = "Function"
    /\ Len(Peek(stack, Instr.arg).args) = Instr.arg

\* the body of a closure returns a value: Return with an object to pop, or
\* Exit, in a nested invocation
BodyReturns ==
    /\ Len(frames) > 1
    /\ \/ About({"Exit"})
       \/ About({"Return"}) /\ ~PopPanics(stack, 1)

\* C12 (executing a closure): a call of a closure with environment cells
\* c_0 .. c_(m-1) on arguments a_0 .. a_(n-1) starts the body at its first
\* instruction in a new top scope whose entity i < m is SharedCell c_i and
\* whose entity m + j is OwnedValue a_j, above the scopes of the caller left
\* as they were; when the body returns a value (Return or Exit) that scope is
\* popped, the variable table is the one the call found, the value is pushed
\* as the result of the call and the caller goes on after the Call.
C12_ClosureScope ==
    [][/\ CallEnters =>
              LET n == Instr.arg
                  func == Peek(stack, n)
                  m == Len(func.env)
              IN  /\ vstatus' = "running"
                  /\ Len(frames') = Len(frames) + 1
                  /\ Cur'.code = func.code
                  /\ Cur'.pc = 0
                  /\ stack' = Popped(stack, n + 1)
                  /\ Len(scopes') = Len(scopes) + 1
                  /\ \A d \in DOMAIN scopes : scopes'[d] = scopes[d]
                  /\ Len(Top(scopes')) = m + n
                  /\ \A i \in 1..m : Top(scopes')[i] = EntityShared(func.env[i])
                  /\ \A j \in 1..n :
                         /\ Top(scopes')[m + j].kind = "Value"
                         /\ IsObjectOf(Top(scopes')[m + j].object,
                                       stack[Len(stack) - n + j])
       /\ BodyReturns =>
              /\ vstatus' = "running"
              /\ Len(frames') = Len(frames) - 1
              /\ Cur'.code = frames[Len(frames) - 1].code
              /\ Cur'.pc = frames[Len(frames) - 1].pc + 1
              /\ scopes' = Cur.base
              /\ Len(scopes') = Len(scopes) - 1
              /\ IF Instr.op = "Exit"
                 THEN stack' = Append(stack, NilObject)
                 ELSE /\ Popped(stack', 1) = Popped(stack, 1)
                      /\ IsObjectOf(Peek(stack', 0), Peek(stack, 0))]_vars

\* a closure capturing x_0 and x_1 was called on 20 and 21, defined a local of
\* its own, assigned 8 to x_0 through its entity 0 and returned it: the
\* caller is past the Call with 8 on the stack and its scope of two entities
C12_Witness ==
    /\ program.family = "call"
    /\ program.input = [captures |-> 2, arity |-> 2, passed |-> 2, body |-> "locals"]
    /\ vstatus = "running"
    /\ Len(frames) = 1
    /\ Pc = CallAt(program.input) + 1
    /\ stack = <<IntObject(8)>>
    /\ scopes = << <<EntityShared(1), EntityShared(2)>> >>
    /\ cells = <<IntObject(8), IntObject(11)>>

\* the index of the first instruction from `from` on that is not op
SkipAll(code, from, op) ==
    CHOOSE e \in from..(Len(code) - 1) :
        /\ At(code, e).op # op
        /\ \A k \in from..(e - 1) : At(code, k).op = op

\* among the instructions from .. to there are as many op as there are
Count(code, from, to, op) == Cardinality({k \in from..to : At(code, k).op = op})

\* the index of the EndFuncCreation that closes a body starting at `from`: the
\* first that has one more EndFuncCreation than BeginFuncCreation before it,
\* itself included
MatchingEnd(code, from) ==
    CHOOSE e \in from..(Len(code) - 1) :
        /\ Count(code, from, e, "EndFuncCreation")
               = Count(code, from, e, "BeginFuncCreation") + 1
        /\ \A k \in from..(e - 1) :
               Count(code, from, k, "EndFuncCreation")
                   <= Count(code, from, k, "BeginFuncCreation")

\* C13 (closure creation): BeginFuncCreation at index p that ends without a
\* panic consumes the block AddCapture* AddArgument* body EndFuncCreation in
\* one step: it pushes exactly one closure whose env is, for each AddCapture
\* in order, the cell of that local (the cell it has, or a new cell holding
\* its value that the local is upgraded to), whose argument list is the names
\* of the AddArguments in order and whose code is every instruction up to but
\* excluding the matching EndFuncCreation at nesting depth 0, nested blocks
\* included whole; the next instruction dispatched is the one after that
\* EndFuncCreation.
C13_ClosureCreation ==
    [][(About({"BeginFuncCreation"}) /\ vstatus' # "panic") =>
          LET code == Cur.code
              captures == SkipAll(code, Pc + 1, "AddCapture")
              arguments == SkipAll(code, captures, "AddArgument")
              end == MatchingEnd(code, arguments)
              func == Peek(stack', 0)
          IN  /\ vstatus' = "running"
              /\ Len(frames') = Len(frames)
              /\ Cur'.code = code
              /\ Cur'.pc = end + 1
              /\ stack' = Append(stack, func)
              /\ func.t = "Function"
              /\ func.id = Pc
              /\ func.args = [j \in 1..(arguments - captures) |->
                                 At(code, captures + j - 1).arg]
              /\ func.code = [k \in 1..(end - arguments) |-> At(code, arguments + k - 1)]
              /\ Len(func.env) = captures - (Pc + 1)
              /\ \A i \in 1..Len(func.env) :
                     LET id == At(code, Pc + i).arg
                         entity == At(Top(scopes), id)
                     IN  /\ At(Top(scopes'), id) = EntityShared(func.env[i])
                         /\ IF entity.kind = "Shared"
                            THEN func.env[i] = entity.cell
                            ELSE /\ func.env[i] > Len(cells)
                                 /\ cells'[func.env[i]] = entity.object
              /\ Len(scopes') = Len(scopes)
              /\ Len(Top(scopes')) = Len(Top(scopes))]_vars

\* the closure of a call program with two captures, one argument and a body
\* that holds a BeginFuncCreation .. EndFuncCreation block of its own is on
\* the stack, and the instruction after its EndFuncCreation is next
C13_Witness ==
    /\ program.family = "call"
    /\ program.input = [captures |-> 2, arity |-> 1, passed |-> 1, body |-> "nested"]
    /\ vstatus = "running"
    /\ Len(frames) = 1
    /\ Pc = CallAt(program.input) - 1
    /\ stack = <<FunctionObject(CallBegin(program.input), <<1, 2>>, <<0>>,
                                CallBody(program.input))>>

\* C14 (a scope remains): at every step of execute started on a variable
\* table of one scope, through nested closure calls and error exits, the
\* variable table holds at least one scope: it holds the scope execute was
\* started on and one scope for each closure call that is active (or that an
\* error has ended).
C14_ScopeRemains ==
    /\ Len(scopes) >= 1
    /\ Len(scopes) = Len(frames)

\* a run has ended with an error two closure calls deep
C14_Witness ==
    /\ program.family = "call"
    /\ program.input.body = "nested_error"
    /\ vstatus = "error"
    /\ Len(scopes) = 3

\* an invocation of execute returns a value: the run ends with it, or a
\* nested invocation hands it to the Call arm, which pushes it
Returns ==
    /\ vstatus = "running"
    /\ \/ vstatus' = "returned"
       \/ vstatus' = "running" /\ Len(frames') < Len(frames)

ReturnedValue == IF Len(frames) = 1 THEN result' ELSE Peek(stack', 0)
StackLeft == IF Len(frames) = 1 THEN stack' ELSE Popped(stack', 1)

\* execute returns a value only by Return, which pops it off the operand
\* stack, or by Exit, which returns Nil and leaves the operand stack as it is;
\* the caller of a nested invocation goes on after its Call
ReturnsByReturnOrExit ==
    Returns =>
        /\ PcValid
        /\ Instr.op \in {"Return", "Exit"}
        /\ IF Instr.op = "Return"
           THEN /\ stack # <<>>
                /\ StackLeft = Popped(stack, 1)
                /\ IsObjectOf(ReturnedValue, Peek(stack, 0))
           ELSE /\ ReturnedValue = NilObject
                /\ StackLeft = stack
        /\ Len(frames) > 1 =>
               /\ Len(frames') = Len(frames) - 1
               /\ Cur'.pc = frames[Len(frames) - 1].pc + 1

\* an instruction outside ops completes without an error and is not a taken
\* jump
Completes(ops) ==
    /\ vstatus = "running"
    /\ PcValid
    /\ Instr.op \notin ops
    /\ ~JumpTaken
    /\ vstatus' = "running"

\* C15 as the specification states it: execute returns a value only by
\* Return or Exit, and after every other instruction that raises no error and
\* is not a taken jump pc has increased by exactly 1 (for a Call, once the
\* callee has returned).
C15_EveryOtherAdvancesByOne ==
    [][/\ ReturnsByReturnOrExit
       /\ Completes({"Return", "Exit", "Call"}) => DispatchesNext(Pc + 1)]_vars

\* C15 amended: as above, except that BeginFuncCreation leaves pc on the
\* instruction after its matching EndFuncCreation, at least 2 further.
C15_AdvancesByOneOrPastBlock ==
    [][/\ ReturnsByReturnOrExit
       /\ Completes({"Return", "Exit", "Call", "BeginFuncCreation"}) =>
              DispatchesNext(Pc + 1)
       /\ Completes({"Return", "Exit", "Call"}) /\ Instr.op = "BeginFuncCreation" =>
              /\ Cur'.pc >= Pc + 2
              /\ At(Cur.code, Cur'.pc - 1).op = "EndFuncCreation"
              /\ DispatchesNext(MatchingEnd(Cur.code,
                     SkipAll(Cur.code, SkipAll(Cur.code, Pc + 1, "AddCapture"),
                             "AddArgument")) + 1)]_vars

\* a closure whose body is Exit was created and called: the nested Exit gave
\* Nil to the Call, and the Return after it ended the run with that Nil
C15_Witness ==
    /\ program.family = "call"
    /\ program.input = [captures |-> 1, arity |-> 1, passed |-> 1, body |-> "exit"]
    /\ vstatus = "returned"
    /\ result = NilObject
    /\ Pc = CallAt(program.input) + 1
    /\ stack = <<>>

\* a Call that finds a function and a number of arguments other than the one
\* it declares
ArityMismatch ==
    /\ About({"Call"})
    /\ Len(stack) >= Instr.arg + 1
    /\ ~PopPanics(stack, Instr.arg)
    /\ Peek(stack, Instr.arg).t = "Function"
    /\ Len(Peek(stack, Instr.arg).args) # Instr.arg

\* C16 (arity mismatch): calling a closure with a number of arguments other
\* than the length of its argument-name list ends execute with an error: no
\* invocation of execute is started on the body, no scope is pushed and the
\* variable table is as it was before the call.
C16_ArityMismatch ==
    [][ArityMismatch =>
          /\ vstatus' = "error"
          /\ frames' = frames
          /\ scopes' = scopes]_vars

\* a closure of two arguments was called on one: the run ended with an error
\* at the Call, in the only scope
C16_Witness ==
    /\ program.family = "call"
    /\ program.input.captures = 1
    /\ program.input.arity = 2
    /\ program.input.passed = 1
    /\ vstatus = "error"
    /\ Len(frames) = 1
    /\ Pc = CallAt(program.input)
    /\ scopes = << <<EntityShared(1)>> >>

LoadOps ==
    {"LoadInt", "LoadFloat", "LoadBool", "LoadString", "LoadNil", "LoadLocal",
     "LoadRustFunction"}

\* the change of the depth of the operand stack the claim fixes for an
\* instruction
StackEffect(ins) ==
    CASE ins.op \in LoadOps \cup {"BeginFuncCreation"} -> 1
      [] ins.op \in {"UnloadTop", "SetLocal", "MakeLocal", "MakeNamed", "GetItem",
                     "JumpIfTrue", "JumpIfFalse"} \cup BinaryOps -> 0 - 1
      [] ins.op = "SetItem" -> 0 - 2
      [] ins.op \in {"MakeArray", "MakeTable"} -> 1 - ins.arg
      [] ins.op \in {"Unm", "Jump", "Nop", "DropLocal"} -> 0

EffectOps ==
    LoadOps \cup BinaryOps
        \cup {"BeginFuncCreation", "UnloadTop", "SetLocal", "MakeLocal", "MakeNamed",
              "GetItem", "JumpIfTrue", "JumpIfFalse", "SetItem", "MakeArray",
              "MakeTable", "Unm", "Jump", "Nop", "DropLocal"}

\* C17 (stack discipline): every instruction that completes without error
\* changes the depth of the operand stack by an amount fixed by the
\* instruction and its operand: +1 for every Load* and BeginFuncCreation; -1
\* for UnloadTop, SetLocal, MakeLocal, MakeNamed, GetItem, each binary
\* arithmetic, comparison and Concat and each conditional jump, taken or not;
\* -2 for SetItem; 1 - n for MakeArray(n) and MakeTable(n); 0 for Unm, Jump,
\* Nop and DropLocal.
C17_StackDiscipline ==
    [][(About(EffectOps) /\ vstatus' = "running") =>
          /\ Len(stack') = Len(stack) + StackEffect(Instr)
          /\ Len(frames') = Len(frames)]_vars

\* `return ({a = 10, b = 11}).a = 99` read back: two MakeNamed, MakeTable(2),
\* SetItem and GetItem have run and the run has returned 99 on an empty stack
C17_Witness ==
    /\ program.family = "table"
    /\ program.input = [kind |-> "set", names |-> <<"a", "b">>, key |-> "a"]
    /\ vstatus = "returned"
    /\ result = IntObject(99)
    /\ stack = <<>>

\* q is a / b truncated toward zero
IsTruncated(a, b, q) ==
    /\ Abs(q) * Abs(b) <= Abs(a)
    /\ Abs(a) < (Abs(q) + 1) * Abs(b)
    /\ q = 0 \/ Sign(q) = Sign(a) * Sign(b)

C19_PowAnyFloatOperand ==
    [][(About({"Pow"}) /\ ~PopPanics(stack, 2)) =>
          LET rhs == Peek(stack, 0)
              lhs == Peek(stack, 1)
          IN  /\ (lhs.t = "Int" /\ rhs.t = "Int") =>
                     /\ vstatus' = "panic"
                     /\ stack' = Popped(stack, 2)
                     /\ frames' = frames
              /\ (lhs.t = "Float" \/ rhs.t = "Float") =>
                     /\ vstatus' = "running"
                     /\ stack' = Append(Popped(stack, 2), Peek(stack', 0))
                     /\ Peek(stack', 0).t = "Float"]_vars

\* C19 amended: Pow on two Int operands is a fatal error; Pow on an Int and a
\* Float or on two Floats pushes a Float; Pow with an operand that is neither
\* Int nor Float, whatever the other, yields an error.
C19_PowNumericOperands ==
    [][(About({"Pow"}) /\ ~PopPanics(stack, 2)) =>
          LET rhs == Peek(stack, 0)
              lhs == Peek(stack, 1)
          IN  IF ~(lhs.t \in {"Int", "Float"} /\ rhs.t \in {"Int", "Float"})
              THEN /\ vstatus' = "error"
                   /\ stack' = Popped(stack, 2)
              ELSE IF lhs.t = "Int" /\ rhs.t = "Int"
              THEN /\ vstatus' = "panic"
                   /\ stack' = Popped(stack, 2)
                   /\ frames' = frames
              ELSE /\ DispatchesNext(Pc + 1)
                   /\ stack' = Append(Popped(stack, 2), Peek(stack', 0))
                   /\ Peek(stack', 0).t = "Float"]_vars

\* `return 2 ^ 3` has ended in a panic at the Pow, nothing pushed
C19_Witness ==
    /\ program.family = "binary"
    /\ program.input = [op |-> "Pow", lhs |-> LoadInt(2), rhs |-> LoadInt(3)]
    /\ vstatus = "panic"
    /\ Pc = 2
    /\ stack = <<>>

\* C20 (conditional jumps): JumpIfTrue and JumpIfFalse each pop exactly one
\* operand; when it is not a Bool execute ends with an error and no jump is
\* made; JumpIfTrue transfers control exactly when the value is true and
\* JumpIfFalse exactly when it is false, and otherwise execution goes on with
\* the next instruction.
C20_ConditionalJump ==
    [][(About({"JumpIfTrue", "JumpIfFalse"}) /\ ~PopPanics(stack, 1)) =>
          LET cond == Peek(stack, 0)
          IN  /\ stack' = Popped(stack, 1)
              /\ IF cond.t # "Bool"
                 THEN vstatus' = "error" /\ frames' = frames
                 ELSE IF cond.b = (Instr.op = "JumpIfTrue")
                 THEN IF Pc + Instr.arg >= 0
                      THEN DispatchesNext(Pc + Instr.arg)
                      ELSE vstatus' = "panic"
                 ELSE DispatchesNext(Pc + 1)]_vars

\* `if 1 then ..`: JumpIfTrue popped the Int 1 and the run ended with an
\* error at the jump
C20_Witness ==
    /\ program.family = "branch"
    /\ program.input = [op |-> "JumpIfTrue", cond |-> LoadInt(1)]
    /\ vstatus = "error"
    /\ Pc = 1
    /\ stack = <<>>

\* MakeTable finds its n entries on the stack, each a Named pair
MakesTable ==
    /\ About({"MakeTable"})
    /\ Len(stack) >= Instr.arg
    /\ \A k \in 0..(Instr.arg - 1) : Peek(stack, k).t = "Named"

\* the i-th of the n pairs pushed for the MakeTable(n) about to run, the
\* deepest being the first
PairPushed(i) == Peek(stack, Instr.arg - i)

\* C21 as the specification states it: MakeTable(n) pops n Named pairs and
\* pushes one Table holding every name among them; when two pairs carry the
\* same name the one pushed later wins: the table maps each name to the value
\* of the last pair pushed with it.
C21_LaterPairWins ==
    [][MakesTable =>
          LET n == Instr.arg
              table == Peek(stack', 0)
          IN  /\ DispatchesNext(Pc + 1)
              /\ stack' = Append(Popped(stack, n), table)
              /\ table.t = "Table"
              /\ DOMAIN cells'[table.ref].map = {PairPushed(i).name : i \in 1..n}
              /\ \A i \in 1..n :
                     (\A j \in (i + 1)..n : PairPushed(j).name # PairPushed(i).name)
                         => cells'[table.ref].map[PairPushed(i).name]
                                = PairPushed(i).object]_vars

\* GetItem finds an accesser it can pop and a target under it
GetsItem ==
    /\ About({"GetItem"})
    /\ Len(stack) >= 2
    /\ ~EnsurePanics(Peek(stack, 0))

\* the vector of an array on the stack, raw or shared
ItemsOf(target) ==
    IF target.t = "RawArray" THEN target.items ELSE cells[target.ref].items

\* C22 (reads out of range): GetItem on an Array or a RawArray with an Int
\* index outside 0 .. len - 1, every negative index included, and GetItem on a
\* Table with an absent key push Nil and raise no error; an index inside
\* 0 .. len - 1 pushes the element at that index (and a key that is present
\* its value).
C22_GetItemOrNil ==
    [][GetsItem =>
          LET accesser == Peek(stack, 0)
              target == Peek(stack, 1)
          IN  /\ (target.t \in {"RawArray", "Array"} /\ accesser.t = "Int") =>
                     /\ DispatchesNext(Pc + 1)
                     /\ stack' = Append(Popped(stack, 2),
                                        IF 0 <= accesser.i /\ accesser.i < Len(ItemsOf(target))
                                        THEN ItemsOf(target)[accesser.i + 1]
                                        ELSE NilObject)
              /\ (target.t = "Table" /\ accesser.t = "String") =>
                     /\ DispatchesNext(Pc + 1)
                     /\ stack' = Append(Popped(stack, 2),
                                        IF accesser.s \in DOMAIN cells[target.ref].map
                                        THEN cells[target.ref].map[accesser.s]
                                        ELSE NilObject)]_vars

\* `var a = [10, 11]; return a[-1]` has returned Nil
C22_Witness ==
    /\ program.family = "collection"
    /\ program.input = [kind |-> "array_get", n |-> 2, index |-> 0 - 1]
    /\ vstatus = "returned"
    /\ result = NilObject

\* MakeArray, MakeNamed or SetItem on a RawArray completes
MakesRaw ==
    /\ About({"MakeArray", "MakeNamed", "SetItem"})
    /\ Instr.op = "SetItem" => (Len(stack) >= 2 /\ Peek(stack, 1).t = "RawArray")
    /\ vstatus' = "running"

IsRaw(entry) == entry.t \in {"RawArray", "Named"}

\* no variable, cell, array element, table value, part of a raw form or
\* returned value is a raw form
RawConfined ==
    /\ \A d \in DOMAIN scopes : \A e \in DOMAIN scopes[d] :
           scopes[d][e].kind = "Value" => ~IsRaw(scopes[d][e].object)
    /\ \A c \in DOMAIN cells :
           CASE cells[c].t = "Vec" ->
                    \A i \in DOMAIN cells[c].items : ~IsRaw(cells[c].items[i])
             [] cells[c].t = "HashMap" ->
                    \A k \in DOMAIN cells[c].map : ~IsRaw(cells[c].map[k])
             [] OTHER -> ~IsRaw(cells[c])
    /\ \A i \in DOMAIN stack :
           CASE stack[i].t = "RawArray" ->
                    \A k \in DOMAIN stack[i].items : ~IsRaw(stack[i].items[k])
             [] stack[i].t = "Named" -> ~IsRaw(stack[i].object)
             [] OTHER -> TRUE
    /\ ~IsRaw(result)

\* C27 as the specification states it: once MakeArray, MakeNamed or SetItem on
\* a RawArray has completed, no RawArray and no Named entry remains on the
\* operand stack.
C27_NoRawAfterInstruction ==
    [][MakesRaw => \A i \in DOMAIN stack' : ~IsRaw(stack'[i])]_vars

\* C27 amended: MakeArray and SetItem on a RawArray leave a RawArray on top
\* of the operand stack and MakeNamed leaves a Named pair there, for a later
\* instruction to pop; raw forms stay on the operand stack: no variable, cell,
\* array element, table value or returned value is ever a raw form.
C27_RawOnStackOnly ==
    [][/\ MakesRaw =>
              /\ DispatchesNext(Pc + 1)
              /\ Peek(stack', 0).t =
                     IF Instr.op = "MakeNamed" THEN "Named" ELSE "RawArray"
       /\ RawConfined']_vars

\* `return ([10, 11])[0] = 99` after its SetItem: the RawArray written to is
\* back on top of the operand stack and Return is next
C27_Witness ==
    /\ program.family = "collection"
    /\ program.input = [kind |-> "raw_set", n |-> 2, index |-> 0]
    /\ vstatus = "running"
    /\ At(Cur.code, Pc) = Return
    /\ stack = <<RawArray(<<IntObject(99), IntObject(11)>>)>>

\* the i-th of the n values pushed last, the deepest being the first
Pushed(n, i) == stack[Len(stack) - n + i]

\* C28 (source order): MakeArray(n) builds an array whose element i is the
\* i-th of the n values pushed, the deepest first; Call(n) pops the n
\* arguments and then the callable and binds argument j, the entity after the
\* captures at position j, to the j-th value pushed; MakeArray consumes
\* exactly the n values and Call the n values and the callable.
C28_SourceOrder ==
    [][/\ (About({"MakeArray"}) /\ ~PopPanics(stack, Instr.arg)) =>
              LET n == Instr.arg
                  array == Peek(stack', 0)
              IN  /\ DispatchesNext(Pc + 1)
                  /\ Popped(stack', 1) = Popped(stack, n)
                  /\ array.t = "RawArray"
                  /\ Len(array.items) = n
                  /\ \A i \in 1..n : IsObjectOf(array.items[i], Pushed(n, i))
       /\ CallEnters =>
              LET n == Instr.arg
                  func == Peek(stack, n)
                  m == Len(func.env)
              IN  /\ stack' = Popped(stack, n + 1)
                  /\ Cur'.code = func.code
                  /\ Len(Top(scopes')) = m + n
                  /\ \A j \in 1..n :
                         /\ Top(scopes')[m + j].kind = "Value"
                         /\ IsObjectOf(Top(scopes')[m + j].object, Pushed(n, j))]_vars

\* a closure of two arguments with one capture has just been called on 20
\* and 21, pushed in this order: its scope holds them in this order
C28_Witness ==
    /\ program.family = "call"
    /\ program.input = [captures |-> 1, arity |-> 2, passed |-> 2, body |-> "value"]
    /\ vstatus = "running"
    /\ Len(frames) = 2
    /\ Pc = 0
    /\ stack = <<>>
    /\ Top(scopes) = <<EntityShared(1), EntityValue(IntObject(20)),
                       EntityValue(IntObject(21))>>

\* SetItem finds a key it can pop, a Table under it and a value under that
SetsKey ==
    /\ About({"SetItem"})
    /\ Len(stack) >= 3
    /\ ~EnsurePanics(Peek(stack, 0))
    /\ ~EnsurePanics(Peek(stack, 2))
    /\ Peek(stack, 1).t = "Table"
    /\ Peek(stack, 0).t = "String"

BodyFails ==
    /\ vstatus = "running"
    /\ Len(frames) > 1
    /\ vstatus' = "error"

\* C30 (error in a called closure): when the body of a called closure ends
\* with a runtime error, the error is propagated without the scope of the call
\* being popped: the variable table the failed run leaves is one scope deeper
\* than the outermost caller's for each call that was active, the scope on
\* top is the failed callee's and the scopes under it are the ones its caller
\* had at the call.
C30_ErrorKeepsScope ==
    [][BodyFails =>
          /\ frames' = frames
          /\ Len(scopes') = Len(frames[2].base) + (Len(frames) - 1)
          /\ \A k \in 2..Len(frames) :
                 /\ Len(frames[k].base) = Len(frames[2].base) + (k - 2)
                 /\ SubSeq(scopes', 1, Len(frames[k].base)) = frames[k].base
          /\ Top(scopes') = Top(scopes)]_vars

\* a closure with one capture and one argument was called on 20 and its body
\* negated nil: the run has ended with an error and the scope of the call,
\* the capture and the argument, is still on top of the caller's
C30_Witness ==
    /\ program.family = "call"
    /\ program.input = [captures |-> 1, arity |-> 1, passed |-> 1, body |-> "error"]
    /\ vstatus = "error"
    /\ Len(frames) = 2
    /\ scopes = << <<EntityShared(1)>>,
                   <<EntityShared(1), EntityValue(IntObject(20))>> >>

\* the instruction about to be dispatched is an unconditional Jump(0)
AtJumpZero == About({"Jump"}) /\ Instr.arg = 0

\* C31 (a Jump(0) spins): executing an unconditional Jump(0) leaves pc as it
\* is and the same instruction is dispatched again: the Jump arm is enabled,
\* the step it takes changes nothing (neither operand stack, variable table
\* and cells, nor the status of the run), and so an execute that has reached a
\* Jump(0) is at that Jump(0), running, ever after.
C31_JumpZeroSpins ==
    /\ [][AtJumpZero =>
             /\ DispatchesNext(Pc)
             /\ UNCHANGED <<stack, scopes, cells, frames, vstatus, result>>]_vars
    /\ [](AtJumpZero => ENABLED ExecJump)
    /\ [](AtJumpZero => [](AtJumpZero /\ vstatus = "running"))

\* the jump family's Jump(0) at index 2, reached after its two Nops
C31_Witness ==
    /\ program.family = "jump"
    /\ program.input.op = "Jump"
    /\ program.input.offset = 0
    /\ AtJumpZero
    /\ Pc = 2
    /\ stack = <<>>

\* C32 (GetItem on a String): GetItem on a String target with an Int index
\* pushes Nil, whatever the index, raises no error and goes on with the next
\* instruction; no index returns a character of the string.
C32_StringIndexNil ==
    [][(GetsItem /\ Peek(stack, 1).t = "String" /\ Peek(stack, 0).t = "Int") =>
          /\ DispatchesNext(Pc + 1)
          /\ stack' = Append(Popped(stack, 2), NilObject)]_vars

\* C33 (Exit in a closure body): an Exit executed in a nested invocation of
\* the interpreter ends that invocation only: the run goes on, the callee's
\* scope (the top one) is popped and the scopes below are left as they were,
\* Nil is pushed on the operand stack as the result of the Call, and the
\* caller, whose code and frames below are unchanged, dispatches the
\* instruction after its Call; an Exit in the outermost invocation ends the
\* whole execution with Nil.
C33_ExitEndsOneInvocation ==
    [][About({"Exit"}) =>
          IF Len(frames) > 1
          THEN LET caller == frames[Len(frames) - 1]
               IN  /\ vstatus' = "running"
                   /\ frames' = [SubSeq(frames, 1, Len(frames) - 1)
                                    EXCEPT ![Len(frames) - 1].pc = caller.pc + 1]
                   /\ At(caller.code, caller.pc).op = "Call"
                   /\ scopes' = SubSeq(scopes, 1, Len(scopes) - 1)
                   /\ scopes' = Cur.base
                   /\ stack' = Append(stack, NilObject)
                   /\ UNCHANGED <<cells, result>>
          ELSE /\ vstatus' = "returned"
               /\ result' = NilObject
               /\ UNCHANGED <<frames, stack, scopes, cells>>]_vars

\* `var x = 5; (func() var y = 6; .. exit; .. end)(); return x` has returned
\* 5: the Exit at index 7 left the 7 of the body on the stack and pushed Nil
\* above it, the scope with x and y was popped and the caller went on from
\* index 12 to read x in its own scope
C33_Witness ==
    /\ program.code = ExitInBodyCode
    /\ vstatus = "returned"
    /\ result = IntObject(5)
    /\ Pc = 13
    /\ Len(frames) = 1
    /\ stack = <<IntObject(7), NilObject>>
    /\ scopes = <<<<EntityShared(1)>>>>
    /\ cells = <<IntObject(5)>>

\* the cells the step found hold what they held
CellsKept == \A r \in DOMAIN cells : cells'[r] = cells[r]

\* some entity of the variable table is a SharedCell on cell r
InTable(r) ==
    \E d \in DOMAIN scopes : \E i \in DOMAIN scopes[d] : scopes[d][i] = EntityShared(r)

\* the body of the closure of an orphan program is running
InOrphanBody == vstatus = "running" /\ Len(frames) = 2 /\ Len(Cur.code) = 6

\* what the closure of an orphan program returns from its last call: 20, the
\* value last written to x by name, and 1 for each call
OrphanExpected(in) == 20 + in.calls + 1

\* C34 (a captured cell outlives its variable): the removal of entities by
\* DropLocal and the pop of a scope when a body returns leave every cell
\* holding what it held; a MakeLocal makes an OwnedValue entity, whichever
\* local id it takes, and changes no cell, and a SetLocal on an OwnedValue
\* entity changes no cell, so a local created at the local id of a removed
\* variable is not aliased with the cell a closure captured from it. A
\* closure whose captured variable was dropped, or was in a scope since
\* popped, still reads and updates the cell on every later call: each call
\* finds the cell as entity 0 of its scope while no entity of the caller is on
\* it, and the program returns the value last written by name plus one for
\* each call, with that value in the cell and 60 in the new local.
C34_CellOutlivesEntity ==
    /\ [][/\ (About({"DropLocal"}) \/ BodyReturns) => CellsKept
          /\ (About({"MakeLocal"}) /\ vstatus' = "running") =>
                 /\ CellsKept
                 /\ Len(Top(scopes')) = Len(Top(scopes)) + 1
                 /\ Top(scopes')[Len(Top(scopes'))].kind = "Value"
          /\ (About({"SetLocal"}) /\ vstatus' = "running"
                  /\ At(Top(scopes), Instr.arg).kind = "Value") =>
                 CellsKept]_vars
    /\ [](program.family = "orphan" =>
              /\ vstatus \in {"running", "returned"}
              /\ InOrphanBody =>
                     /\ Top(scopes) = <<EntityShared(1)>>
                     /\ \A i \in DOMAIN scopes[1] : scopes[1][i].kind = "Value"
              /\ vstatus = "returned" =>
                     /\ result = IntObject(OrphanExpected(program.input))
                     /\ cells = <<result>>
                     /\ ~InTable(1)
                     /\ Top(scopes)[1].kind = "Value"
                     /\ Top(scopes)[1].object.t = "Function"
                     /\ Top(scopes)[1].object.env = <<1>>
                     /\ program.input.kind = "drop" =>
                            Top(scopes)[2] = EntityValue(IntObject(60)))

\* x was dropped and a new local made at its local id 1, the closure was
\* called three times and 60 was written to the new local: the fourth call has
\* returned 24, the cell holds 24 and the local 60
C34_Witness ==
    /\ program.family = "orphan"
    /\ program.input = [kind |-> "drop", calls |-> 3]
    /\ vstatus = "returned"
    /\ result = IntObject(24)
    /\ cells = <<IntObject(24)>>
    /\ Len(scopes) = 1
    /\ Top(scopes)[2] = EntityValue(IntObject(60))

(***************************************************************************)
(* Properties of the analysis of variable statements (checked under        *)
(* WalkSpec)                                                               *)
(***************************************************************************)
\* the step analyzes a statement of one of the kinds
Analyzes(kinds) ==
    /\ pending # <<>>
    /\ Head(pending).do = "analyze"
    /\ Head(pending).node.kind \in kinds

\* the calls the step makes
NewCalls == SubSeq(calls', Len(calls) + 1, Len(calls'))

Current(tr) == tr[Len(tr)]
Definitions(tr) == [i \in 1..Len(tr) |-> tr[i].definitions]

\* the scopes below the current one are left as they are
OuterScopesKept ==
    /\ Len(tracker') = Len(tracker)
    /\ \A i \in 1..(Len(tracker) - 1) : tracker'[i] = tracker[i]

\* C23 (assignment is a capture): analyzing an assignment records a capture
\* of the target name (the root table name for a table field) and no
\* definition, whether or not the name is defined in the current scope, and
\* then analyzes the right-hand side; analyzing var or let with a plain
\* variable target records a definition of the name in the current scope.
C23_AssignCaptures ==
    [][/\ Analyzes({"Assign"}) =>
              LET name == Head(pending).node.lhs.name
              IN  /\ NewCalls = <<Made("add_capture", name), Made("rhs.analyze", "")>>
                  /\ Current(tracker').captures = Current(tracker).captures \cup {name}
                  /\ Definitions(tracker') = Definitions(tracker)
                  /\ OuterScopesKept
       /\ (Analyzes({"Var", "Let"}) /\ Head(pending).node.lhs.kind = "Variable") =>
              LET name == Head(pending).node.lhs.name
              IN  /\ NewCalls = <<Made("add_definition", name), Made("rhs.analyze", "")>>
                  /\ Current(tracker').definitions =
                         Current(tracker).definitions \cup {name}
                  /\ Current(tracker').captures = Current(tracker).captures
                  /\ OuterScopesKept]_vars

\* in `func b.k(a) var a = 1; a = 2 end` the assignment to a, which the
\* current scope defines, has been analyzed: a is captured there as well
C23_Witness ==
    /\ tree = Func(TableField("b"), <<"a">>,
                   <<Var(Variable("a")), Assign(Variable("a"))>>)
    /\ pending = <<ToPop(1)>>
    /\ Len(calls) = 7
    /\ calls[6] = Made("add_capture", "a")
    /\ Current(tracker) = [definitions |-> {"a"}, captures |-> {"a"}]

\* C24 (function statement): analyzing `func name(args) body end` defines
\* name in the current scope (captures the root name when the target is a
\* table field), pushes a new definition scope, defines each parameter in
\* that scope in declaration order, analyzes the body and pops the scope, in
\* this order; the depth of the tracker after the statement is the depth
\* before it, also for nested function statements, and no scope but the
\* function's own gains a parameter.
C24_FuncScope ==
    [][/\ Analyzes({"Func"}) =>
              LET stmt == Head(pending).node
                  depth == Len(tracker)
              IN  /\ NewCalls =
                         <<Made(IF stmt.name.kind = "Variable" THEN "add_definition"
                                ELSE "add_capture", stmt.name.name),
                           Made("push_new_definition_scope", "")>>
                             \o [i \in 1..Len(stmt.args) |->
                                     Made("add_definition", stmt.args[i])]
                  /\ Len(tracker') = depth + 1
                  /\ Current(tracker') =
                         [definitions |-> Range(stmt.args), captures |-> {}]
                  /\ \A i \in 1..(depth - 1) : tracker'[i] = tracker[i]
                  /\ tracker'[depth] =
                         IF stmt.name.kind = "Variable"
                         THEN [tracker[depth] EXCEPT
                                  !.definitions = @ \cup {stmt.name.name}]
                         ELSE [tracker[depth] EXCEPT
                                  !.captures = @ \cup {stmt.name.name}]
                  /\ pending' = [i \in 1..Len(stmt.body) |-> ToAnalyze(stmt.body[i])]
                                    \o <<ToPop(depth)>> \o Tail(pending)
       /\ Analyzes({"Var", "Let", "Assign"}) =>
              OuterScopesKept /\ pending' = Tail(pending)
       /\ (pending # <<>> /\ Head(pending).do = "pop") =>
              /\ NewCalls = <<Made("pop_current_definition_scope", "")>>
              /\ Len(tracker') = Head(pending).depth
              /\ tracker' = SubSeq(tracker, 1, Head(pending).depth)
              /\ pending' = Tail(pending)
       /\ (pending # <<>> /\ pending' = <<>>) => Len(tracker') = 1]_vars

\* `func a(b, c) func a(a) end; a = 1 end` has been analyzed: one scope is
\* left, which defines a and neither b nor c
C24_Witness ==
    /\ tree = Func(Variable("a"), <<"b", "c">>,
                   <<Func(Variable("a"), <<"a">>, <<>>), Assign(Variable("a"))>>)
    /\ pending = <<>>
    /\ Len(calls) = 11
    /\ calls[8] = Made("pop_current_definition_scope", "")
    /\ tracker = <<[definitions |-> {"a"}, captures |-> {}]>>

====
